---------------------------- MODULE Spec2Model ----------------------------
(***************************************************************************)
(* IFTSTA AHB PDF compare: the differencing pass (comparator.mjs) over two *)
(* documents stored by database.mjs.                                       *)
(*                                                                         *)
(* A text value is a sequence of characters.  A character is a string: a   *)
(* printable ASCII character stands for itself, every other character is   *)
(* written by its code point, "U+00A0".                                    *)
(***************************************************************************)
EXTENDS Naturals, Sequences, FiniteSets

VARIABLES
  pc,          \* position of the running pipeline
  text,        \* normalization: the input string
  once,        \* normalization: normalizeForComparison(text)
  twice,       \* normalization: normalizeForComparison(once)
  rows1,       \* row matching: getRows of the old section
  rows2,       \* row matching: getRows of the new section
  rowDiffs,    \* row matching: what compareRows returned
  rowDiffsSrc, \* row matching: what src/comparator.mjs's compareRows returned
  parsed1,     \* pipeline: parsePDF of the old PDF
  parsed2,     \* pipeline: parsePDF of the new PDF
  db,          \* pipeline: the sql.js database
  comparison,  \* pipeline: what compareDocuments returned
  items,       \* page: the text items of one page, as parsePDF hands them over
  visualRows,  \* page: what groupIntoRows returned
  parsedRows,  \* page: parseRow of every visual row
  build,       \* buildSections: its locals sections, current, rows, lastRow
               \* and pendingTitle
  log,         \* buildSections: the parsed rows met so far, and their branch
  before,      \* buildSections: its locals before the last row was met
  structured,  \* buildSections: what it returned
  dbReady,     \* web: the sql.js engine is initialized
  req,         \* web: the request: its uploaded files and its body
  tempFiles,   \* web: the handler's list of downloaded files
  pdf1Path,    \* web: the handler's local pdf1Path
  pdf2Path,    \* web: the handler's local pdf2Path
  res,         \* web: the status of every response sent, in order
  tmpDir       \* web: the files that exist in the temp directory

normVars == <<text, once, twice>>
rowVars == <<rows1, rows2, rowDiffs, rowDiffsSrc>>
docVars == <<parsed1, parsed2, db, comparison>>
pageVars == <<items, visualRows, parsedRows>>
buildVars == <<build, log, before, structured>>
parserVars == <<items, visualRows, parsedRows, build, log, before, structured>>
webVars == <<dbReady, req, tempFiles, pdf1Path, pdf2Path, res, tmpDir>>
vars == <<pc, text, once, twice, rows1, rows2, rowDiffs, rowDiffsSrc,
          parsed1, parsed2, db, comparison, items, visualRows, parsedRows,
          build, log, before, structured,
          dbReady, req, tempFiles, pdf1Path, pdf2Path, res, tmpDir>>

None == "none"

-----------------------------------------------------------------------------
(* Character classes of the regular expressions in normalizeForComparison  *)
(* and rowKey.                                                             *)

\* [\u200B\u200C\u200D\uFEFF\u2060\u200E\u200F\u00AD]
ZeroWidthChars ==
  {
    "U+200B", "U+200C", "U+200D", "U+FEFF", "U+2060", "U+200E", "U+200F",
    "U+00AD"
  }

\* [\x00-\x08\x0B\x0C\x0E-\x1F\x7F-\x9F]
ControlChars ==
  {
    "U+0000", "U+0001", "U+0002", "U+0003", "U+0004", "U+0005", "U+0006",
    "U+0007", "U+0008", "U+000B", "U+000C", "U+000E", "U+000F", "U+0010",
    "U+0011", "U+0012", "U+0013", "U+0014", "U+0015", "U+0016", "U+0017",
    "U+0018", "U+0019", "U+001A", "U+001B", "U+001C", "U+001D", "U+001E",
    "U+001F", "U+007F", "U+0080", "U+0081", "U+0082", "U+0083", "U+0084",
    "U+0085", "U+0086", "U+0087", "U+0088", "U+0089", "U+008A", "U+008B",
    "U+008C", "U+008D", "U+008E", "U+008F", "U+0090", "U+0091", "U+0092",
    "U+0093", "U+0094", "U+0095", "U+0096", "U+0097", "U+0098", "U+0099",
    "U+009A", "U+009B", "U+009C", "U+009D", "U+009E", "U+009F"
  }

\* [\u00A0\u2000-\u200A\u202F\u205F\u3000]
UnicodeSpaceChars ==
  {
    "U+00A0", "U+2000", "U+2001", "U+2002", "U+2003", "U+2004", "U+2005",
    "U+2006", "U+2007", "U+2008", "U+2009", "U+200A", "U+202F", "U+205F",
    "U+3000"
  }

\* [\u2010-\u2015\u2212\uFE58\uFE63\uFF0D]
DashChars ==
  {
    "U+2010", "U+2011", "U+2012", "U+2013", "U+2014", "U+2015", "U+2212",
    "U+FE58", "U+FE63", "U+FF0D"
  }

\* \s of a JavaScript regular expression; String.prototype.trim strips the
\* same characters.
RegexSpaceChars ==
  {
    "U+0009", "U+000A", "U+000B", "U+000C", "U+000D", "U+00A0", "U+1680",
    "U+2000", "U+2001", "U+2002", "U+2003", "U+2004", "U+2005", "U+2006",
    "U+2007", "U+2008", "U+2009", "U+200A", "U+2028", "U+2029", "U+202F",
    "U+205F", "U+3000", "U+FEFF", " "
  }

UpperChars ==
  {
    "A", "B", "C", "D", "E", "F", "G", "H", "I", "J", "K", "L", "M", "N",
    "O", "P", "Q", "R", "S", "T", "U", "V", "W", "X", "Y", "Z"
  }

LowerChars ==
  {
    "a", "b", "c", "d", "e", "f", "g", "h", "i", "j", "k", "l", "m", "n",
    "o", "p", "q", "r", "s", "t", "u", "v", "w", "x", "y", "z"
  }

DigitChars == {"0", "1", "2", "3", "4", "5", "6", "7", "8", "9"}

\* \w
WordChars == UpperChars \cup LowerChars \cup DigitChars \cup {"_"}

\* [A-Z0-9_]
CodeChars == UpperChars \cup DigitChars \cup {"_"}

-----------------------------------------------------------------------------
(* String primitives of the JavaScript runtime.                            *)

\* The first index >= i of s that holds no \s character (Len(s)+1 if none):
\* where a greedy \s* that starts at i ends.
RECURSIVE SkipSpace(_, _)
SkipSpace(s, i) ==
  IF i <= Len(s) /\ s[i] \in RegexSpaceChars THEN SkipSpace(s, i + 1) ELSE i

\* The first index >= i of s that holds no plain space.
RECURSIVE SkipBlank(_, _)
SkipBlank(s, i) ==
  IF i <= Len(s) /\ s[i] = " " THEN SkipBlank(s, i + 1) ELSE i

\* The last index <= i of s that holds no \s character (0 if none).
RECURSIVE BackSpace(_, _)
BackSpace(s, i) ==
  IF i >= 1 /\ s[i] \in RegexSpaceChars THEN BackSpace(s, i - 1) ELSE i

\* String.prototype.trim
Trim(s) ==
  LET a == SkipSpace(s, 1)
      b == BackSpace(s, Len(s))
  IN  IF a > b THEN <<>> ELSE SubSeq(s, a, b)

\* s.replace(/[class]/g, '')
Strip(s, class) == SelectSeq(s, LAMBDA c : c \notin class)

\* s.replace(/[class]/g, to)
Unify(s, class, to) ==
  [i \in 1..Len(s) |-> IF s[i] \in class THEN to ELSE s[i]]

\* Where the regular expression named p, tried at index i of s, ends its
\* match (the index of the last character matched), or 0 when it does not
\* match at i.  Every \s* is greedy and is followed by a character that is
\* not \s, so no match needs backtracking.
MatchEnd(p, s, i) ==
  CASE p = "word-hyphen-word" ->        \* /(\w)\s*-\s*(\w)/
         IF s[i] \notin WordChars THEN 0
         ELSE LET j == SkipSpace(s, i + 1)
              IN  IF j > Len(s) \/ s[j] # "-" THEN 0
                  ELSE LET k == SkipSpace(s, j + 1)
                       IN  IF k <= Len(s) /\ s[k] \in WordChars THEN k ELSE 0
    [] p = "hyphen-slash" ->            \* /\s*-\s*\/\s*/
         LET j == SkipSpace(s, i)
         IN  IF j > Len(s) \/ s[j] # "-" THEN 0
             ELSE LET k == SkipSpace(s, j + 1)
                  IN  IF k > Len(s) \/ s[k] # "/" THEN 0
                      ELSE SkipSpace(s, k + 1) - 1
    [] p = "slash-hyphen" ->            \* /\s*\/\s*-\s*/
         LET j == SkipSpace(s, i)
         IN  IF j > Len(s) \/ s[j] # "/" THEN 0
             ELSE LET k == SkipSpace(s, j + 1)
                  IN  IF k > Len(s) \/ s[k] # "-" THEN 0
                      ELSE SkipSpace(s, k + 1) - 1
    [] p = "slash" ->                   \* /\s*\/\s*/
         LET j == SkipSpace(s, i)
         IN  IF j > Len(s) \/ s[j] # "/" THEN 0
             ELSE SkipSpace(s, j + 1) - 1
    [] p = "spaces" ->                  \* / {2,}/
         LET j == SkipBlank(s, i)
         IN  IF j - i >= 2 THEN j - 1 ELSE 0

\* What replaces the match of p that runs from i to e.
Replacement(p, s, i, e) ==
  CASE p = "word-hyphen-word" -> <<s[i], "-", s[e]>>    \* '$1-$2'
    [] p = "hyphen-slash" -> <<"-", "/">>
    [] p = "slash-hyphen" -> <<"/", "-">>
    [] p = "slash" -> <<"/">>
    [] p = "spaces" -> <<" ">>

\* s.replace(/p/g, replacement) from index i on: the leftmost match is
\* replaced and the search goes on behind it, so matches never overlap.
RECURSIVE ReplaceFrom(_, _, _)
ReplaceFrom(p, s, i) ==
  IF i > Len(s) THEN <<>>
  ELSE LET e == MatchEnd(p, s, i)
       IN  IF e > 0
             THEN Replacement(p, s, i, e) \o ReplaceFrom(p, s, e + 1)
             ELSE <<s[i]>> \o ReplaceFrom(p, s, i + 1)

ReplaceAll(p, s) == ReplaceFrom(p, s, 1)

\* The dash step in the place a reordered implementation would give it:
\* after the spacing steps instead of before them.
normalizeDashesLate(txt) ==
  LET s1 == Strip(txt, ZeroWidthChars)
      s2 == Strip(s1, ControlChars)
      s3 == Unify(s2, UnicodeSpaceChars, " ")
      s5 == ReplaceAll("word-hyphen-word", s3)
      s6 == ReplaceAll("hyphen-slash", s5)
      s7 == ReplaceAll("slash-hyphen", s6)
      s8 == ReplaceAll("slash", s7)
      s4 == Unify(s8, DashChars, "-")
  IN  Trim(ReplaceAll("spaces", s4))

normalizeForComparison(txt) ==
  LET s1 == Strip(txt, ZeroWidthChars)
      s2 == Strip(s1, ControlChars)
      s3 == Unify(s2, UnicodeSpaceChars, " ")
      s4 == Unify(s3, DashChars, "-")
      s5 == ReplaceAll("word-hyphen-word", s4)
      s6 == ReplaceAll("hyphen-slash", s5)
      s7 == ReplaceAll("slash-hyphen", s6)
      s8 == ReplaceAll("slash", s7)
  IN  Trim(ReplaceAll("spaces", s8))

-----------------------------------------------------------------------------
(* Values of the JavaScript runtime that the comparator builds.            *)

\* A string literal, character by character.
LABEL == <<"L", "A", "B", "E", "L", ":">>
POS == <<"P", "O", "S", ":">>

\* String(n) of a non-negative integer.
RECURSIVE NumberToString(_)
NumberToString(n) ==
  LET d == <<"0", "1", "2", "3", "4", "5", "6", "7", "8", "9">>[(n % 10) + 1]
  IN  IF n < 10 THEN <<d>> ELSE NumberToString(n \div 10) \o <<d>>

\* parts.join(sep)
RECURSIVE Join(_, _)
Join(parts, sep) ==
  IF Len(parts) = 0 THEN <<>>
  ELSE IF Len(parts) = 1 THEN parts[1]
  ELSE parts[1] \o sep \o Join(Tail(parts), sep)

\* s.split(/\s+/)[0] || '': the characters before the first \s character.
RECURSIVE FirstWordFrom(_, _)
FirstWordFrom(s, i) ==
  IF i > Len(s) \/ s[i] \in RegexSpaceChars THEN <<>>
  ELSE <<s[i]>> \o FirstWordFrom(s, i + 1)

FirstWord(s) == FirstWordFrom(s, 1)

\* /^[A-Z0-9_]{1,10}$/.test(w)
LooksLikeCode(w) ==
  /\ Len(w) >= 1
  /\ Len(w) <= 10
  /\ \A i \in 1..Len(w) : w[i] \in CodeChars

\* [...].filter(Boolean) of strings: the non-empty ones, in order.
NonEmpty(parts) == SelectSeq(parts, LAMBDA x : x # <<>>)

\* The keys of a Map or the values of a Set built by inserting the elements
\* of seq in order: each value once, at the place of its first occurrence.
RECURSIVE InsertionOrder(_)
InsertionOrder(seq) ==
  IF seq = <<>> THEN <<>>
  ELSE LET rest == InsertionOrder(SubSeq(seq, 1, Len(seq) - 1))
           last == seq[Len(seq)]
       IN  IF \E i \in 1..Len(rest) : rest[i] = last THEN rest
           ELSE Append(rest, last)

Range(seq) == {seq[i] : i \in 1..Len(seq)}

RECURSIVE Flatten(_)
Flatten(seqs) ==
  IF seqs = <<>> THEN <<>> ELSE Head(seqs) \o Flatten(Tail(seqs))

Max(a, b) == IF a >= b THEN a ELSE b

-----------------------------------------------------------------------------
(* Row matching: comparator.mjs as served by the web front end.            *)

\* rowKey of a row that is no label, from the three identifiers and the
\* beschreibung as the caller reads them: the non-empty identifiers joined
\* by "|", the first word added when it looks like a code and dataElement
\* (ids[3]) is not empty; "POS:" + rowOrder without identifiers.
KeyOfParts(ids, beschr, rowOrder) ==
  LET parts == NonEmpty(ids)
      firstWord == FirstWord(beschr)
  IN  IF Len(parts) = 0 THEN POS \o NumberToString(rowOrder)
      ELSE IF LooksLikeCode(firstWord) /\ ids[3] # <<>>
        THEN Join(Append(parts, firstWord), <<"|">>)
        ELSE Join(parts, <<"|">>)

rowKey(row) ==
  IF row.isLabel THEN LABEL \o normalizeForComparison(row.beschreibung)
  ELSE KeyOfParts(<<normalizeForComparison(row.segmentGroup),
                    normalizeForComparison(row.segmentCode),
                    normalizeForComparison(row.dataElement)>>,
                  normalizeForComparison(row.beschreibung),
                  row.rowOrder)

\* The fields diffRowFields compares: the four free-text fields, trimmed,
\* then the two structural ones.
TextFields == <<"beschreibung", "statusCol1", "statusCol2", "bedingung">>
StructFields == <<"segmentGroup", "segmentCode">>

\* The change pushed for field f with the values v1 and v2, if any.
ChangeOf(f, v1, v2) ==
  IF normalizeForComparison(v1) # normalizeForComparison(v2)
    THEN <<[field |-> f, old |-> v1, new |-> v2]>>
    ELSE <<>>

\* A field comparison that normalizes the old value alone.
diffRowFieldsOneSided(r1, r2) ==
  Flatten([i \in 1..4 |->
             IF normalizeForComparison(Trim(r1[TextFields[i]]))
                  # Trim(r2[TextFields[i]])
               THEN <<[field |-> TextFields[i],
                       old |-> Trim(r1[TextFields[i]]),
                       new |-> Trim(r2[TextFields[i]])]>>
               ELSE <<>>])
    \o Flatten([i \in 1..2 |->
                  ChangeOf(StructFields[i], r1[StructFields[i]],
                           r2[StructFields[i]])])

\* A field comparison that stops at the first field that differs.
diffRowFieldsFirstOnly(r1, r2) ==
  LET all == Flatten([i \in 1..4 |->
                        ChangeOf(TextFields[i], Trim(r1[TextFields[i]]),
                                 Trim(r2[TextFields[i]]))])
               \o Flatten([i \in 1..2 |->
                             ChangeOf(StructFields[i], r1[StructFields[i]],
                                      r2[StructFields[i]])])
  IN  IF all = <<>> THEN <<>> ELSE <<all[1]>>

diffRowFields(r1, r2) ==
  Flatten([i \in 1..4 |->
             ChangeOf(TextFields[i], Trim(r1[TextFields[i]]),
                      Trim(r2[TextFields[i]]))])
    \o Flatten([i \in 1..2 |->
                  ChangeOf(StructFields[i], r1[StructFields[i]],
                           r2[StructFields[i]])])

\* The rows whose key is k, in row order; keyOf[i] is the key of rows[i].
RowsAt(rows, keyOf, k) ==
  LET at == SelectSeq([i \in 1..Len(rows) |-> i], LAMBDA i : keyOf[i] = k)
  IN  [j \in 1..Len(at) |-> rows[at[j]]]

\* The Map of key -> rows with that key: its keys in insertion order and
\* the list of every key.
GroupRows(keyOf, rows) ==
  [keys |-> InsertionOrder(keyOf),
   list |-> [k \in Range(keyOf) |-> RowsAt(rows, keyOf, k)]]

buildRowMap(rows) ==
  GroupRows([i \in 1..Len(rows) |-> rowKey(rows[i])], rows)

\* map.get(key) || []
ListOf(map, key) == IF key \in DOMAIN map.list THEN map.list[key] ELSE <<>>

\* The RowDiff of a pair.  matched2 is the id that compareRows adds to its
\* set matched2 in the same turn (0: none): the new row of the pair, which
\* a RowDiff of type unchanged does not carry otherwise.
PairedDiff(key, r1, r2, fieldChanges) ==
  IF Len(fieldChanges) > 0
    THEN [type |-> "modified", key |-> key, rowOld |-> r1, rowNew |-> r2,
          changes |-> fieldChanges, matched2 |-> r2.id]
    ELSE [type |-> "unchanged", key |-> key, row |-> r1, matched2 |-> r2.id]

\* A turn of the inner loop that takes the new row from index 0 always.
PairDiffFirstNew(key, list1, list2, i) ==
  IF i <= Len(list1) /\ i <= Len(list2)
    THEN PairedDiff(key, list1[i], list2[1], diffRowFields(list1[i], list2[1]))
  ELSE IF i <= Len(list1)
    THEN [type |-> "removed", key |-> key, row |-> list1[i], matched2 |-> 0]
    ELSE [type |-> "added", key |-> key, row |-> list2[i],
          matched2 |-> list2[i].id]

\* One turn of compareRows' inner loop: the RowDiff pushed for index i of
\* the two lists of one key.
PairDiff(key, list1, list2, i) ==
  IF i <= Len(list1) /\ i <= Len(list2)
    THEN PairedDiff(key, list1[i], list2[i], diffRowFields(list1[i], list2[i]))
  ELSE IF i <= Len(list1)
    THEN [type |-> "removed", key |-> key, row |-> list1[i], matched2 |-> 0]
    ELSE [type |-> "added", key |-> key, row |-> list2[i],
          matched2 |-> list2[i].id]

\* An inner loop that stops where the shorter list ends.
DiffsOfKeyMinLen(key, list1, list2) ==
  [i \in 1..(IF Len(list1) <= Len(list2) THEN Len(list1) ELSE Len(list2)) |->
     PairDiff(key, list1, list2, i)]

\* compareRows' inner loop for one key: maxLen turns.
DiffsOfKey(key, list1, list2) ==
  [i \in 1..Max(Len(list1), Len(list2)) |-> PairDiff(key, list1, list2, i)]

\* compareRows' outer loop over the keys of both maps.
PairMaps(map1, map2) ==
  LET allKeys == InsertionOrder(map1.keys \o map2.keys)
  IN  Flatten([n \in 1..Len(allKeys) |->
                 DiffsOfKey(allKeys[n], ListOf(map1, allKeys[n]),
                            ListOf(map2, allKeys[n]))])

compareRows(rowsOld, rowsNew) ==
  PairMaps(buildRowMap(rowsOld), buildRowMap(rowsNew))

-----------------------------------------------------------------------------
(* database.mjs: the tables sections and rows of a sql.js database.  An id *)
(* is the place of its record in the table (AUTOINCREMENT, nothing is ever *)
(* deleted).                                                               *)

createDatabase == [documents |-> <<>>, sections |-> <<>>, rows |-> <<>>]

\* The loop over parsed.sections from index si on.
RECURSIVE InsertSections(_, _, _, _)
InsertSections(database, docId, sections, si) ==
  IF si > Len(sections) THEN database
  ELSE LET section == sections[si]
           sectionId == Len(database.sections) + 1
           stored ==
             [id |-> sectionId,
              document_id |-> docId,
              section_order |-> si - 1,
              title |-> section.title,
              pruefidentifikator |-> Join(section.pruefidentifikator, <<",">>),
              kommunikation_von |-> Join(section.kommunikationVon, <<",">>),
              status_col1_header |-> section.statusCol1Header,
              status_col2_header |-> section.statusCol2Header,
              page_start |-> section.pageStart]
           storedRows ==
             [ri \in 1..Len(section.rows) |->
                LET row == section.rows[ri]
                IN  [id |-> Len(database.rows) + ri,
                     section_id |-> sectionId,
                     row_order |-> ri - 1,
                     segment_group |-> row.segmentGroup,
                     segment_code |-> row.segmentCode,
                     data_element |-> row.dataElement,
                     beschreibung |-> row.beschreibung,
                     status_col1 |-> row.statusCol1,
                     status_col2 |-> row.statusCol2,
                     bedingung |-> row.bedingung,
                     is_label |-> IF row.isLabel THEN 1 ELSE 0]]
       IN  InsertSections(
             [database EXCEPT !.sections = Append(@, stored),
                              !.rows = @ \o storedRows],
             docId, sections, si + 1)

\* The database after insertDocument(db, filename, parsed); the id returned
\* is the number of documents it then holds.
insertDocument(database, parsed) ==
  LET docId == Len(database.documents) + 1
      withDoc == [database EXCEPT !.documents =
                    Append(@, [id |-> docId, version |-> parsed.version,
                               page_count |-> parsed.pageCount])]
  IN  InsertSections(withDoc, docId, parsed.sections, 1)

\* ORDER BY section_order is the order of insertion.
getSections(database, documentId) ==
  LET found == SelectSeq(database.sections,
                         LAMBDA s : s.document_id = documentId)
  IN  [i \in 1..Len(found) |->
         [id |-> found[i].id,
          sectionOrder |-> found[i].section_order,
          title |-> found[i].title,
          pruefidentifikator |-> found[i].pruefidentifikator,
          kommunikationVon |-> found[i].kommunikation_von,
          statusCol1Header |-> found[i].status_col1_header,
          statusCol2Header |-> found[i].status_col2_header,
          pageStart |-> found[i].page_start]]

\* ORDER BY row_order is the order of insertion.
getRows(database, sectionId) ==
  LET found == SelectSeq(database.rows, LAMBDA r : r.section_id = sectionId)
  IN  [i \in 1..Len(found) |->
         [id |-> found[i].id,
          rowOrder |-> found[i].row_order,
          segmentGroup |-> found[i].segment_group,
          segmentCode |-> found[i].segment_code,
          dataElement |-> found[i].data_element,
          beschreibung |-> found[i].beschreibung,
          statusCol1 |-> found[i].status_col1,
          statusCol2 |-> found[i].status_col2,
          bedingung |-> found[i].bedingung,
          isLabel |-> found[i].is_label = 1]]

-----------------------------------------------------------------------------
(* Section matching: comparator.mjs as served by the web front end.        *)

\* The first index of seq that holds x.
RECURSIVE IndexOf(_, _, _)
IndexOf(seq, x, i) == IF seq[i] = x THEN i ELSE IndexOf(seq, x, i + 1)

\* A section map keyed by the first code of the list alone.
buildPruefMapFirstCode(sections) ==
  LET keyOf == [i \in 1..Len(sections) |->
                  LET k == sections[i].pruefidentifikator
                      cut == IF \E j \in 1..Len(k) : k[j] = ","
                               THEN IndexOf(k, ",", 1) - 1 ELSE Len(k)
                  IN  SubSeq(k, 1, cut)]
      keys == InsertionOrder(keyOf)
  IN  [keys |-> keys,
       at |-> [k \in Range(keys) |-> sections[IndexOf(keyOf, k, 1)]]]

\* The last index of seq that holds x, searched downwards from i.
RECURSIVE LastIndexOf(_, _, _)
LastIndexOf(seq, x, i) == IF seq[i] = x THEN i ELSE LastIndexOf(seq, x, i - 1)

\* A section map in which a later section replaces an earlier one of its key.
buildPruefMapLast(sections) ==
  LET keyOf == [i \in 1..Len(sections) |-> sections[i].pruefidentifikator]
      keys == InsertionOrder(keyOf)
  IN  [keys |-> keys,
       at |-> [k \in Range(keys) |->
                 sections[LastIndexOf(keyOf, k, Len(keyOf))]]]

\* The Map of key -> first section with that key: its keys in insertion
\* order and the section of every key.
buildPruefMap(sections) ==
  LET keyOf == [i \in 1..Len(sections) |-> sections[i].pruefidentifikator]
      keys == InsertionOrder(keyOf)
  IN  [keys |-> keys,
       at |-> [k \in Range(keys) |-> sections[IndexOf(keyOf, k, 1)]]]

MetaFields ==
  <<"title", "kommunikationVon", "statusCol1Header", "statusCol2Header">>

\* A metadata test that leaves the status headers out.
checkMetaChangesNoHeaders(s1, s2) ==
  \E i \in 1..2 :
    normalizeForComparison(s1[MetaFields[i]])
      # normalizeForComparison(s2[MetaFields[i]])

checkMetaChanges(s1, s2) ==
  \E i \in 1..4 :
    normalizeForComparison(s1[MetaFields[i]])
      # normalizeForComparison(s2[MetaFields[i]])

getMetaChanges(s1, s2) ==
  Flatten([i \in 1..4 |->
             ChangeOf(MetaFields[i], s1[MetaFields[i]], s2[MetaFields[i]])])

\* order[type] ?? 9
TypeOrder(type) ==
  CASE type = "modified" -> 0
    [] type = "added" -> 1
    [] type = "removed" -> 2
    [] type = "unchanged" -> 3
    [] OTHER -> 9

\* Array.prototype.sort with (a, b) => order[a.type] - order[b.type]: a
\* stable sort (ECMAScript 2019), here by insertion: d goes behind every
\* element that does not compare greater than it.
RECURSIVE InsertByType(_, _)
InsertByType(sorted, d) ==
  IF sorted = <<>> THEN <<d>>
  ELSE IF TypeOrder(sorted[Len(sorted)].type) > TypeOrder(d.type)
    THEN Append(InsertByType(SubSeq(sorted, 1, Len(sorted) - 1), d),
                sorted[Len(sorted)])
    ELSE Append(sorted, d)

RECURSIVE SortByType(_)
SortByType(diffs) ==
  IF diffs = <<>> THEN <<>>
  ELSE InsertByType(SortByType(SubSeq(diffs, 1, Len(diffs) - 1)),
                    diffs[Len(diffs)])

\* The SectionDiff of a key that only the new document holds.
AddedDiff(key, s2, rows) ==
  [type |-> "added", pruefidentifikator |-> key, section |-> s2,
   rows |-> [i \in 1..Len(rows) |-> [type |-> "added", row |-> rows[i]]]]

\* The SectionDiff of a key that only the old document holds.
RemovedDiff(key, s1, rows) ==
  [type |-> "removed", pruefidentifikator |-> key, section |-> s1,
   rows |-> [i \in 1..Len(rows) |-> [type |-> "removed", row |-> rows[i]]]]

\* The SectionDiff of a key that both documents hold.
MatchedDiff(key, s1, s2, diffs, metaChanged) ==
  [type |-> IF (\E i \in 1..Len(diffs) : diffs[i].type # "unchanged")
                 \/ metaChanged
              THEN "modified" ELSE "unchanged",
   pruefidentifikator |-> key,
   sectionOld |-> s1,
   sectionNew |-> s2,
   metaChanges |-> IF metaChanged THEN getMetaChanges(s1, s2) ELSE <<>>,
   rows |-> diffs]

\* The SectionDiff pushed for one key of allKeys.
SectionDiffOf(database, map1, map2, key) ==
  IF key \notin DOMAIN map1.at
    THEN AddedDiff(key, map2.at[key], getRows(database, map2.at[key].id))
  ELSE IF key \notin DOMAIN map2.at
    THEN RemovedDiff(key, map1.at[key], getRows(database, map1.at[key].id))
  ELSE MatchedDiff(key, map1.at[key], map2.at[key],
                   compareRows(getRows(database, map1.at[key].id),
                               getRows(database, map2.at[key].id)),
                   checkMetaChanges(map1.at[key], map2.at[key]))

\* A loop over the keys of the old document alone.
DiffMapsOldKeys(database, map1, map2) ==
  [n \in 1..Len(map1.keys) |->
     SectionDiffOf(database, map1, map2, map1.keys[n])]

\* compareDocuments' loop over the keys of both maps: what it pushes.
DiffMaps(database, map1, map2) ==
  LET allKeys == InsertionOrder(map1.keys \o map2.keys)
  IN  [n \in 1..Len(allKeys) |->
         SectionDiffOf(database, map1, map2, allKeys[n])]

\* The number of SectionDiffs of one type: summary[type]++ at every push.
CountType(diffs, type) ==
  Cardinality({i \in 1..Len(diffs) : diffs[i].type = type})

\* A result that is returned as pushed, without the sort.
ResultUnsorted(pushed) ==
  [summary |-> [added |-> CountType(pushed, "added"),
                removed |-> CountType(pushed, "removed"),
                modified |-> CountType(pushed, "modified"),
                unchanged |-> CountType(pushed, "unchanged")],
   sectionDiffs |-> pushed]

\* The ComparisonResult of the SectionDiffs pushed.
ResultOf(pushed) ==
  [summary |-> [added |-> CountType(pushed, "added"),
                removed |-> CountType(pushed, "removed"),
                modified |-> CountType(pushed, "modified"),
                unchanged |-> CountType(pushed, "unchanged")],
   sectionDiffs |-> SortByType(pushed)]

compareDocuments(database, docId1, docId2) ==
  ResultOf(DiffMaps(database,
                    buildPruefMap(getSections(database, docId1)),
                    buildPruefMap(getSections(database, docId2))))

-----------------------------------------------------------------------------
(* Row matching: the copy in src/comparator.mjs, which the command line    *)
(* front end (index.mjs) loads.  It compares the stored strings as they    *)
(* are.                                                                    *)

rowKeySrc(row) ==
  IF row.isLabel THEN LABEL \o row.beschreibung
  ELSE KeyOfParts(<<row.segmentGroup, row.segmentCode, row.dataElement>>,
                  row.beschreibung, row.rowOrder)

ChangeOfSrc(f, v1, v2) ==
  IF v1 # v2 THEN <<[field |-> f, old |-> v1, new |-> v2]>> ELSE <<>>

diffRowFieldsSrc(r1, r2) ==
  Flatten([i \in 1..4 |->
             ChangeOfSrc(TextFields[i], Trim(r1[TextFields[i]]),
                         Trim(r2[TextFields[i]]))])
    \o Flatten([i \in 1..2 |->
                  ChangeOfSrc(StructFields[i], r1[StructFields[i]],
                              r2[StructFields[i]])])

buildRowMapSrc(rows) ==
  GroupRows([i \in 1..Len(rows) |-> rowKeySrc(rows[i])], rows)

PairDiffSrc(key, list1, list2, i) ==
  IF i <= Len(list1) /\ i <= Len(list2)
    THEN PairedDiff(key, list1[i], list2[i],
                    diffRowFieldsSrc(list1[i], list2[i]))
  ELSE IF i <= Len(list1)
    THEN [type |-> "removed", key |-> key, row |-> list1[i], matched2 |-> 0]
    ELSE [type |-> "added", key |-> key, row |-> list2[i],
          matched2 |-> list2[i].id]

PairMapsSrc(map1, map2) ==
  LET allKeys == InsertionOrder(map1.keys \o map2.keys)
  IN  Flatten([n \in 1..Len(allKeys) |->
                 [i \in 1..Max(Len(ListOf(map1, allKeys[n])),
                               Len(ListOf(map2, allKeys[n]))) |->
                    PairDiffSrc(allKeys[n], ListOf(map1, allKeys[n]),
                                ListOf(map2, allKeys[n]), i)]])

compareRowsSrc(rowsOld, rowsNew) ==
  PairMapsSrc(buildRowMapSrc(rowsOld), buildRowMapSrc(rowsNew))

\* The variables of a pipeline that does not run.
NormIdle == text = <<>> /\ once = None /\ twice = None
RowIdle == rows1 = <<>> /\ rows2 = <<>> /\ rowDiffs = None /\ rowDiffsSrc = None
DocIdle == parsed1 = None /\ parsed2 = None /\ db = None /\ comparison = None
PageIdle == items = <<>> /\ visualRows = None /\ parsedRows = None
BuildIdle == build = None /\ log = <<>> /\ before = None /\ structured = None
ParserIdle == PageIdle /\ BuildIdle
WebIdle ==
  /\ dbReady = FALSE /\ req = None /\ tempFiles = <<>>
  /\ pdf1Path = None /\ pdf2Path = None /\ res = <<>> /\ tmpDir = {}

-----------------------------------------------------------------------------
(* Normalization of one string, applied once and then to its own result.   *)

MaxLen == 4

\* One character of every class the normalization tells apart: a word
\* character, one that is in no class, space, hyphen, slash, tab, and one
\* of each class that is stripped or unified.
Alphabet ==
  {"a", ".", " ", "-", "/", "U+0009", "U+0007", "U+00A0", "U+2013", "U+200B"}

Texts == UNION {[1..n -> Alphabet] : n \in 0..MaxLen}

InitNorm == pc = "start" /\ NormIdle /\ RowIdle /\ DocIdle /\ ParserIdle
  /\ WebIdle

ChooseText ==
  /\ pc = "start"
  /\ \E t \in Texts : text' = t
  /\ pc' = "text"
  /\ UNCHANGED <<webVars, once, twice, rowVars, docVars, parserVars>>

Normalize ==
  /\ pc = "text"
  /\ once' = normalizeForComparison(text)
  /\ pc' = "once"
  /\ UNCHANGED <<webVars, text, twice, rowVars, docVars, parserVars>>

NormalizeAgain ==
  /\ pc = "once"
  /\ twice' = normalizeForComparison(once)
  /\ pc' = "twice"
  /\ UNCHANGED <<webVars, text, once, rowVars, docVars, parserVars>>

NextNorm == ChooseText \/ Normalize \/ NormalizeAgain

SpecNorm == InitNorm /\ [][NextNorm]_vars

\* C4: normalizing a normalized string changes nothing:
\* normalizeForComparison(normalizeForComparison(s)) = normalizeForComparison(s).
C4_NormalizeIdempotent == pc = "twice" => twice = once

\* C4 witness: a string that the first pass changed and the second pass did
\* not: spacing around a hyphen, a dash variant and a stripped character.
C4_Witness ==
  /\ pc = "twice"
  /\ text = <<"a", "U+2013", " ", "a">>
  /\ once = <<"a", "-", "a">>
  /\ twice = once

-----------------------------------------------------------------------------
(* parser.mjs: what buildSections lets through.  A stored document is the  *)
(* result of parsePDF; these are the tests a row passes to be stored.      *)

\* /^\d{lo,hi}$/
IsDigits(s, lo, hi) ==
  Len(s) \in lo..hi /\ \A i \in 1..Len(s) : s[i] \in DigitChars

\* SEGMENT_GROUP_RE: /^SG\d+$/
MatchesSegmentGroup(s) ==
  /\ Len(s) >= 3
  /\ s[1] = "S" /\ s[2] = "G"
  /\ \A i \in 3..Len(s) : s[i] \in DigitChars

KNOWN_SEGMENTS ==
  { <<"U", "N", "H">>, <<"B", "G", "M">>, <<"D", "T", "M">>,
    <<"N", "A", "D">>, <<"C", "T", "A">>, <<"C", "O", "M">>,
    <<"C", "N", "I">>, <<"L", "O", "C">>, <<"S", "T", "S">>,
    <<"R", "F", "F">>, <<"F", "T", "X">>, <<"E", "Q", "D">>,
    <<"G", "I", "D">>, <<"U", "N", "T">>, <<"D", "O", "C">>,
    <<"M", "E", "A">>, <<"Q", "T", "Y">>, <<"T", "D", "T">>,
    <<"S", "E", "Q">>, <<"P", "C", "I">>, <<"G", "I", "N">>,
    <<"I", "D", "E">>, <<"D", "G", "S">> }

hasEdifactContent(row) ==
  \/ MatchesSegmentGroup(row.segmentGroup)
  \/ row.segmentCode \in KNOWN_SEGMENTS
  \/ IsDigits(Trim(row.dataElement), 4, 5)

isDataRow(row) ==
  \/ hasEdifactContent(row)
  \/ (row.segmentGroup # <<>> /\ row.segmentCode # <<>>)

isSectionLabel(row) ==
  /\ row.segmentGroup = <<>> /\ row.segmentCode = <<>>
  /\ row.dataElement = <<>>
  /\ row.beschreibung # <<>>
  /\ row.statusCol1 = <<>> /\ row.statusCol2 = <<>>

\* /^\d{5}$/ or /^\d{5}\s+\d{5}$/ on a trimmed status column.
IsNumericId(col) ==
  LET t == Trim(col)
  IN  \/ IsDigits(t, 5, 5)
      \/ /\ Len(t) >= 11
         /\ IsDigits(SubSeq(t, 1, 5), 5, 5)
         /\ IsDigits(SubSeq(t, Len(t) - 4, Len(t)), 5, 5)
         /\ \A i \in 6..(Len(t) - 5) : t[i] \in RegexSpaceChars

\* hasNumericId of isPruefidentifikatorHeader, on the two status columns
\* that become the section's pruefidentifikator.
hasNumericId(statusCol1, statusCol2) ==
  IsNumericId(statusCol1) \/ IsNumericId(statusCol2)

-----------------------------------------------------------------------------
(* Texts of the IFTSTA AHB tables that the inputs below are built from.  A *)
(* text item of a page has its white space collapsed by normalizeWhitespace *)
(* and a stored field is trimmed, so the presentation variants that reach  *)
(* the database are the characters that \s does not match: zero-width      *)
(* characters and dash variants.                                           *)

Empty == <<>>
ZW == <<"U+200B">>
SG2 == <<"S", "G", "2">>
SG2zw == <<"S", "G", "2", "U+200B">>
CTA == <<"C", "T", "A">>
DE3139 == <<"3", "1", "3", "9">>
Muss == <<"M", "u", "s", "s">>
X == <<"X">>
Cond1 == <<"[", "1", "]">>
ICInfo == <<"I", "C", " ", "I", "n", "f", "o">>
ICInfoZw == <<"I", "C", "U+200B", " ", "I", "n", "f", "o">>
Name == <<"N", "a", "m", "e">>
NameZw == <<"N", "a", "U+200B", "m", "e">>
Sendungsdaten ==
  <<"S", "e", "n", "d", "u", "n", "g", "s", "d", "a", "t", "e", "n">>
Meldung == <<"M", "e", "l", "d", "u", "n", "g">>
MeldungZw == <<"M", "e", "l", "d", "u", "n", "g", "U+200B">>
Status == <<"S", "t", "a", "t", "u", "s">>
LF == <<"L", "F">>
NB == <<"N", "B">>
Code21000 == <<"2", "1", "0", "0", "0">>
Code21025 == <<"2", "1", "0", "2", "5">>
Code21027 == <<"2", "1", "0", "2", "7">>
Code21027zw == <<"2", "1", "0", "2", "7", "U+200B">>
Codes21026and21027 ==
  <<"2", "1", "0", "2", "6", ",", "2", "1", "0", "2", "7">>

\* A data row as buildSections pushes it (isLabel undefined, read as false).
DataRow(sg, sc, de, b, s1, s2, bed) ==
  [segmentGroup |-> sg, segmentCode |-> sc, dataElement |-> de,
   beschreibung |-> b, statusCol1 |-> s1, statusCol2 |-> s2,
   bedingung |-> bed, isLabel |-> FALSE]

\* A label row as buildSections pushes it.
LabelRow(b) ==
  [segmentGroup |-> Empty, segmentCode |-> Empty, dataElement |-> Empty,
   beschreibung |-> b, statusCol1 |-> Empty, statusCol2 |-> Empty,
   bedingung |-> Empty, isLabel |-> TRUE]

\* A section as buildSections pushes it.
Section(title, pruef, von, h1, h2, rows) ==
  [title |-> title, pruefidentifikator |-> pruef, kommunikationVon |-> von,
   statusCol1Header |-> h1, statusCol2Header |-> h2, pageStart |-> 1,
   rows |-> rows]

\* The result of parsePDF.
Parsed(sections) ==
  [version |-> <<"2", ".", "1">>, pageCount |-> 1, sections |-> sections]

\* Every sequence over pool of length at most n.
SeqsUpTo(pool, n) == UNION {[1..k -> pool] : k \in 0..n}

-----------------------------------------------------------------------------
(* Row matching of one pair of sections.                                   *)

MaxRows == 3

\* Rows that share a compound key or not: lists of them hold a key once,
\* twice or three times on either side.
RowPool ==
  { r \in { DataRow(SG2, CTA, DE3139, Empty, Muss, Empty, Empty),
            DataRow(SG2, CTA, DE3139, Empty, X, Empty, Empty),
            LabelRow(Sendungsdaten) } :
      isDataRow(r) \/ isSectionLabel(r) }

\* Rows that differ field by field: the identifiers spread over the three
\* columns, with a zero-width character or of nothing else, the texts with
\* and without a presentation variant.
FieldRows ==
  { r \in { DataRow(id[1], id[2], id[3], b, s1, s2, bed) :
              id \in { <<SG2, Empty, DE3139>>, <<Empty, SG2, DE3139>>,
                       <<SG2, CTA, Empty>>, <<SG2zw, CTA, Empty>>,
                       <<ZW, ZW, Empty>> },
              b \in {ICInfo, ICInfoZw, Name},
              s1 \in {Muss, X},
              s2 \in {Empty, X},
              bed \in {Empty, Cond1} } :
      isDataRow(r) }

\* The pairs of row lists (old section, new section) that are compared.
RowInputs ==
  (SeqsUpTo(RowPool, MaxRows) \X SeqsUpTo(RowPool, MaxRows))
    \cup {<<(<<a>>), (<<b>>)>> : a \in FieldRows, b \in FieldRows}

\* The database that holds one document of one section for either list.
RowDatabase(oldRows, newRows) ==
  insertDocument(
    insertDocument(createDatabase,
                   Parsed(<<Section(Empty, <<Code21000>>, <<>>, Empty, Empty,
                                    oldRows)>>)),
    Parsed(<<Section(Empty, <<Code21000>>, <<>>, Empty, Empty, newRows)>>))

InitRows == pc = "start" /\ NormIdle /\ RowIdle /\ DocIdle /\ ParserIdle
  /\ WebIdle

GetRows ==
  /\ pc = "start"
  /\ \E in \in RowInputs :
       LET database == RowDatabase(in[1], in[2])
       IN  /\ rows1' = getRows(database, 1)
           /\ rows2' = getRows(database, 2)
  /\ pc' = "rows"
  /\ UNCHANGED <<webVars, rowDiffs, rowDiffsSrc, normVars, docVars, parserVars>>

CompareRows ==
  /\ pc = "rows"
  /\ rowDiffs' = compareRows(rows1, rows2)
  /\ pc' = "compared"
  /\ UNCHANGED <<webVars, rows1, rows2, rowDiffsSrc, normVars, docVars, parserVars>>

CompareRowsSrc ==
  /\ pc = "rows"
  /\ rowDiffsSrc' = compareRowsSrc(rows1, rows2)
  /\ pc' = "comparedSrc"
  /\ UNCHANGED <<webVars, rows1, rows2, rowDiffs, normVars, docVars, parserVars>>

NextRows == GetRows \/ CompareRows \/ CompareRowsSrc

SpecRows == InitRows /\ [][NextRows]_vars

-----------------------------------------------------------------------------
(* Properties of row matching.                                             *)

\* The id of the old row that a RowDiff accounts for (0: none).
OldIdOf(d) ==
  IF d.type = "modified" THEN d.rowOld.id
  ELSE IF d.type \in {"removed", "unchanged"} THEN d.row.id
  ELSE 0

\* The id of the new row that a RowDiff accounts for (0: none).
NewIdOf(d) ==
  IF d.type = "modified" THEN d.rowNew.id
  ELSE IF d.type = "added" THEN d.row.id
  ELSE IF d.type = "unchanged" THEN d.matched2
  ELSE 0

\* The row of rows that has this id.
RowOfId(rows, id) == rows[CHOOSE i \in 1..Len(rows) : rows[i].id = id]

\* The types of a list of diffs.
TypesOf(diffs) == [i \in 1..Len(diffs) |-> diffs[i].type]

\* C2: row-count conservation: every old row is accounted for by exactly
\* one RowDiff (removed, modified or unchanged), every new row by exactly
\* one RowDiff (added, modified or unchanged), and every RowDiff accounts
\* for a row of the input: no row is dropped and none is used twice.
C2_RowConservation ==
  pc = "compared" =>
    /\ \A i \in 1..Len(rows1) :
         Cardinality({n \in 1..Len(rowDiffs) :
                        OldIdOf(rowDiffs[n]) = rows1[i].id}) = 1
    /\ \A j \in 1..Len(rows2) :
         Cardinality({n \in 1..Len(rowDiffs) :
                        NewIdOf(rowDiffs[n]) = rows2[j].id}) = 1
    /\ \A n \in 1..Len(rowDiffs) :
         /\ OldIdOf(rowDiffs[n]) \in {0} \cup {rows1[i].id : i \in 1..Len(rows1)}
         /\ NewIdOf(rowDiffs[n]) \in {0} \cup {rows2[j].id : j \in 1..Len(rows2)}
         /\ OldIdOf(rowDiffs[n]) # 0 \/ NewIdOf(rowDiffs[n]) # 0

\* C2 witness: three old and three new rows over two keys, matched into an
\* unchanged, a modified, a removed and an added RowDiff.
C2_Witness ==
  /\ pc = "compared"
  /\ Len(rows1) = 3 /\ Len(rows2) = 3
  /\ TypesOf(rowDiffs) = <<"unchanged", "modified", "removed", "added">>

\* The rows of rows that carry the compound key k, in row order.
RowsOfKey(rows, k) == SelectSeq(rows, LAMBDA r : rowKey(r) = k)

\* The RowDiffs that carry the key k, in the order of the result.
DiffsWithKey(diffs, k) ==
  LET at == SelectSeq([n \in 1..Len(diffs) |-> n], LAMBDA n : diffs[n].key = k)
  IN  [j \in 1..Len(at) |-> diffs[at[j]]]

\* C5: duplicate-key positional matching: for a key carried by m old and n
\* new rows the result holds max(m, n) RowDiffs of that key; the i-th pairs
\* the i-th old row with the i-th new row as modified or unchanged for
\* i <= min(m, n), and every further one is the added (n > m) or removed
\* (m > n) diff of the i-th row of the longer list.
C5_PositionalMatching ==
  pc = "compared" =>
    \A k \in {rowKey(rows1[i]) : i \in 1..Len(rows1)}
               \cup {rowKey(rows2[j]) : j \in 1..Len(rows2)} :
      LET list1 == RowsOfKey(rows1, k)
          list2 == RowsOfKey(rows2, k)
          ds == DiffsWithKey(rowDiffs, k)
      IN  /\ Len(ds) = Max(Len(list1), Len(list2))
          /\ \A i \in 1..Len(ds) :
               IF i <= Len(list1) /\ i <= Len(list2)
                 THEN /\ ds[i].type \in {"modified", "unchanged"}
                      /\ OldIdOf(ds[i]) = list1[i].id
                      /\ NewIdOf(ds[i]) = list2[i].id
               ELSE IF i <= Len(list1)
                 THEN ds[i].type = "removed" /\ ds[i].row = list1[i]
                 ELSE ds[i].type = "added" /\ ds[i].row = list2[i]

\* C5 witness: two old and three new rows share one key; the first two
\* pair up by position (the second pair differs in statusCol1), the third
\* new row is added.
C5_Witness ==
  /\ pc = "compared"
  /\ Len(rows1) = 2 /\ Len(rows2) = 3
  /\ \A i \in 1..2 : rowKey(rows1[i]) = rowKey(rows2[3])
  /\ \A j \in 1..3 : rowKey(rows2[j]) = rowKey(rows2[3])
  /\ TypesOf(rowDiffs) = <<"unchanged", "modified", "added">>
  /\ rowDiffs[2].rowOld = rows1[2] /\ rowDiffs[2].rowNew = rows2[2]
  /\ rowDiffs[3].row = rows2[3]

\* The compound key as specified: LABEL: and the normalized beschreibung of
\* a label row; else the non-empty normalized identifiers joined by "|",
\* the first token of the normalized beschreibung appended when dataElement
\* is not empty and the token is 1 to 10 characters of A-Z, 0-9 and _;
\* POS: and the row order when the three identifiers are empty.
SpecifiedKey(row) ==
  LET sg == normalizeForComparison(row.segmentGroup)
      sc == normalizeForComparison(row.segmentCode)
      de == normalizeForComparison(row.dataElement)
      token == FirstWord(normalizeForComparison(row.beschreibung))
      ids == (IF sg = <<>> THEN <<>> ELSE <<sg>>)
               \o (IF sc = <<>> THEN <<>> ELSE <<sc>>)
               \o (IF de = <<>> THEN <<>> ELSE <<de>>)
      isCode == /\ Len(token) \in 1..10
                /\ \A i \in 1..Len(token) : token[i] \in CodeChars
  IN  IF row.isLabel
        THEN LABEL \o normalizeForComparison(row.beschreibung)
      ELSE IF ids = <<>> THEN POS \o NumberToString(row.rowOrder)
      ELSE IF de # <<>> /\ isCode THEN Join(Append(ids, token), <<"|">>)
      ELSE Join(ids, <<"|">>)

\* The row that a RowDiff was keyed by: its old row, or its new row when
\* there is no old one.
KeyedRow(d) == IF d.type = "modified" THEN d.rowOld ELSE d.row

\* C6: compound key construction: the key of every RowDiff is the
\* specified key of its row, whichever copy of comparator.mjs made it.
C6_KeyAsSpecified ==
  /\ pc = "compared" =>
       \A n \in 1..Len(rowDiffs) :
         rowDiffs[n].key = SpecifiedKey(KeyedRow(rowDiffs[n]))
  /\ pc = "comparedSrc" =>
       \A n \in 1..Len(rowDiffsSrc) :
         rowDiffsSrc[n].key = SpecifiedKey(KeyedRow(rowDiffsSrc[n]))

\* The six fields that the comparison of a pair reads.
ComparedFields == TextFields \o StructFields

\* The fields of a pair that differ after normalization, in field order.
DifferingFields(r1, r2) ==
  SelectSeq(ComparedFields,
            LAMBDA f : normalizeForComparison(r1[f])
                         # normalizeForComparison(r2[f]))

\* C7: field comparison of a paired row: the pair is unchanged exactly
\* when its six compared fields are equal after normalization; otherwise
\* it is one modified RowDiff whose changes hold one entry per differing
\* field, with the old and the new value, and none for an equal field.
\* SG2/CTA/3139 with statusCol1 Muss against X gives the key SG2|CTA|3139
\* and the changes [{statusCol1, Muss, X}].
C7_FieldComparison ==
  pc = "compared" =>
    \A n \in 1..Len(rowDiffs) :
      LET d == rowDiffs[n]
          r1 == RowOfId(rows1, OldIdOf(d))
          r2 == RowOfId(rows2, NewIdOf(d))
          differing == DifferingFields(r1, r2)
      IN  d.type \in {"modified", "unchanged"} =>
            /\ d.type = "unchanged" <=> differing = <<>>
            /\ d.type = "modified" =>
                 /\ [i \in 1..Len(d.changes) |-> d.changes[i].field] = differing
                 /\ \A i \in 1..Len(d.changes) :
                      /\ normalizeForComparison(d.changes[i].old)
                           = normalizeForComparison(r1[differing[i]])
                      /\ normalizeForComparison(d.changes[i].new)
                           = normalizeForComparison(r2[differing[i]])
            /\ ( /\ r1.segmentGroup = SG2 /\ r1.segmentCode = CTA
                 /\ r1.dataElement = DE3139 /\ r1.statusCol1 = Muss
                 /\ r2 = [r1 EXCEPT !.id = r2.id, !.statusCol1 = X] )
               => /\ d.key = <<"S", "G", "2", "|", "C", "T", "A", "|",
                               "3", "1", "3", "9">>
                  /\ d.changes = <<[field |-> "statusCol1",
                                    old |-> Muss, new |-> X]>>

\* C7 witness: the pair SG2/CTA/3139 with statusCol1 Muss against X, alone
\* in its section, reported as one modified RowDiff.
C7_Witness ==
  /\ pc = "compared"
  /\ Len(rows1) = 1 /\ Len(rows2) = 1
  /\ rows1[1].segmentGroup = SG2 /\ rows1[1].segmentCode = CTA
  /\ rows1[1].dataElement = DE3139
  /\ rows1[1].statusCol1 = Muss /\ rows2[1].statusCol1 = X
  /\ Len(rowDiffs) = 1
  /\ rowDiffs[1].type = "modified"
  /\ rowDiffs[1].changes = <<[field |-> "statusCol1", old |-> Muss, new |-> X]>>

-----------------------------------------------------------------------------
(* The comparison pipeline on a pair of documents: POST /api/compare.      *)

MaxSections == 3

RowsA ==
  <<LabelRow(Name), DataRow(SG2, CTA, DE3139, Name, Muss, Empty, Empty)>>
RowsB ==
  <<LabelRow(Name), DataRow(SG2, CTA, DE3139, Name, X, Empty, Empty)>>
RowsAzw ==
  <<LabelRow(NameZw), DataRow(SG2zw, CTA, DE3139, NameZw, Muss, Empty, Empty)>>

\* The key that insertDocument stores for a section.
KeyOf(section) == Join(section.pruefidentifikator, <<",">>)

\* A section that buildSections can push: its header row passed
\* isPruefidentifikatorHeader and each of its rows isDataRow or
\* isSectionLabel.
SectionAdmissible(s) ==
  /\ Len(s.pruefidentifikator) \in 1..2
  /\ hasNumericId(s.pruefidentifikator[1],
                  IF Len(s.pruefidentifikator) = 2
                    THEN s.pruefidentifikator[2] ELSE Empty)
  /\ \A i \in 1..Len(s.rows) :
       IF s.rows[i].isLabel THEN isSectionLabel(s.rows[i])
                            ELSE isDataRow(s.rows[i])

\* A section list that buildSections can return: a header that repeats the
\* key of the current section opens no new section.
DocAdmissible(d) ==
  \A i \in 1..(Len(d) - 1) : KeyOf(d[i]) # KeyOf(d[i + 1])

\* Sections of the old document: the keys 21025,21026,21027 and 21025,21027
\* and 21000, and a second section of the key 21025,21027 with another
\* title and row.
OldPool ==
  { s \in { Section(Name, <<Code21025, Codes21026and21027>>, <<LF, NB>>,
                    Meldung, Meldung, RowsA),
            Section(Name, <<Code21025, Code21027>>, <<LF, NB>>,
                    Meldung, Meldung, RowsA),
            Section(Name, <<Code21000>>, <<LF, NB>>,
                    Meldung, Meldung, RowsA),
            Section(ICInfo, <<Code21025, Code21027>>, <<LF, NB>>,
                    Meldung, Meldung, RowsB) } :
      SectionAdmissible(s) }

\* Sections of the new document: 21025,21027 with a changed row, the same
\* key with a zero-width character in the second column, 21000 with
\* zero-width characters in its rows, and a second section of the key
\* 21025,21027 with another title and row.
NewPool ==
  { s \in { Section(Name, <<Code21025, Code21027>>, <<LF, NB>>,
                    Meldung, Meldung, RowsB),
            Section(Name, <<Code21025, Code21027zw>>, <<LF, NB>>,
                    Meldung, Meldung, RowsA),
            Section(Name, <<Code21000>>, <<LF, NB>>,
                    Meldung, Meldung, RowsAzw),
            Section(ICInfo, <<Code21025, Code21027>>, <<LF, NB>>,
                    Meldung, Meldung, RowsA) } :
      SectionAdmissible(s) }

\* Sections of one key that differ in their metadata and rows.
MetaPool ==
  { s \in { Section(title, <<Code21000>>, von, h1, h2, rows) :
              title \in {Name, NameZw, ICInfo},
              von \in {<<LF, NB>>, <<NB>>},
              h1 \in {Meldung, MeldungZw, Status},
              h2 \in {Meldung, Empty},
              rows \in {RowsA, RowsB, RowsAzw} } :
      SectionAdmissible(s) }

DocsOver(pool) == {d \in SeqsUpTo(pool, MaxSections) : DocAdmissible(d)}

\* The section lists of the old document.
OldDocs ==
  DocsOver(OldPool) \cup DocsOver(OldPool \cup NewPool)
    \cup {<<s>> : s \in MetaPool}

\* The section lists of the new document that are compared with old: the
\* lists over NewPool, a copy of old, the single sections of MetaPool.
NewDocsFor(old) ==
  (IF old \in DocsOver(OldPool) THEN DocsOver(NewPool) ELSE {})
    \cup {old}
    \cup (IF Len(old) = 1 /\ old[1] \in MetaPool
            THEN {<<s>> : s \in MetaPool} ELSE {})

Init == pc = "start" /\ NormIdle /\ RowIdle /\ DocIdle /\ ParserIdle
  /\ WebIdle

\* const parsed1 = await parsePDF(pdf1Path)
ParseOld ==
  /\ pc = "start"
  /\ \E d \in OldDocs : parsed1' = Parsed(d)
  /\ pc' = "parsed1"
  /\ UNCHANGED <<webVars, parsed2, db, comparison, normVars, rowVars, parserVars>>

\* const parsed2 = await parsePDF(pdf2Path)
ParseNew ==
  /\ pc = "parsed1"
  /\ \E d \in NewDocsFor(parsed1.sections) : parsed2' = Parsed(d)
  /\ pc' = "parsed2"
  /\ UNCHANGED <<webVars, parsed1, db, comparison, normVars, rowVars, parserVars>>

\* insertDocument twice into the database created for the request, then
\* compareDocuments.
Compare ==
  /\ pc = "parsed2"
  /\ db' = insertDocument(insertDocument(createDatabase, parsed1), parsed2)
  /\ comparison' = compareDocuments(db', 1, 2)
  /\ pc' = "done"
  /\ UNCHANGED <<webVars, parsed1, parsed2, normVars, rowVars, parserVars>>

Next == ParseOld \/ ParseNew \/ Compare

Spec == Init /\ [][Next]_vars

-----------------------------------------------------------------------------
(* Properties of the comparison of two documents.                          *)

\* The section keys of a stored document, in section order.
StoredKeys(docId) ==
  LET sections == getSections(db, docId)
  IN  [i \in 1..Len(sections) |-> sections[i].pruefidentifikator]

\* Every RowDiff of every SectionDiff of the result is unchanged.
AllRowsUnchanged ==
  \A n \in 1..Len(comparison.sectionDiffs) :
    \A i \in 1..Len(comparison.sectionDiffs[n].rows) :
      comparison.sectionDiffs[n].rows[i].type = "unchanged"

\* C1 as stated: a document compared with an identical copy of itself gives
\* added = removed = modified = 0 and unchanged = the total section count,
\* and every row diff is unchanged.
C1_IdentityTotalCount ==
  (pc = "done" /\ parsed1 = parsed2) =>
    /\ comparison.summary =
         [added |-> 0, removed |-> 0, modified |-> 0,
          unchanged |-> Len(parsed1.sections)]
    /\ AllRowsUnchanged

\* C1: a document compared with an identical copy of itself gives
\* added = removed = modified = 0 and unchanged = the number of distinct
\* section keys of the document (the section count when no key repeats),
\* and every row diff is unchanged.
C1_IdentityDistinctKeys ==
  (pc = "done" /\ parsed1 = parsed2) =>
    /\ comparison.summary =
         [added |-> 0, removed |-> 0, modified |-> 0,
          unchanged |-> Cardinality({KeyOf(parsed1.sections[i]) :
                                       i \in 1..Len(parsed1.sections)})]
    /\ Len(comparison.sectionDiffs) = comparison.summary.unchanged
    /\ AllRowsUnchanged

\* C1 witness: a document of three sections whose first key returns in the
\* third, compared with its copy: two unchanged section diffs.
C1_Witness ==
  /\ pc = "done"
  /\ parsed1 = parsed2
  /\ Len(parsed1.sections) = 3
  /\ KeyOf(parsed1.sections[1]) = KeyOf(parsed1.sections[3])
  /\ comparison.summary.unchanged = 2
  /\ AllRowsUnchanged

\* The codes of a comma-joined key, from index i on; cur is the code read
\* so far.
RECURSIVE CodesFrom(_, _, _)
CodesFrom(key, i, cur) ==
  IF i > Len(key) THEN {cur}
  ELSE IF key[i] = "," THEN {cur} \cup CodesFrom(key, i + 1, <<>>)
  ELSE CodesFrom(key, i + 1, Append(cur, key[i]))

CodesOf(key) == CodesFrom(key, 1, <<>>)

\* The SectionDiffs of the result that carry this key.
SectionDiffsOfKey(key) ==
  {n \in 1..Len(comparison.sectionDiffs) :
     comparison.sectionDiffs[n].pruefidentifikator = key}

CanonicalRow(row) ==
  [row EXCEPT !.segmentGroup = normalizeForComparison(@),
              !.segmentCode = normalizeForComparison(@),
              !.dataElement = normalizeForComparison(@),
              !.beschreibung = normalizeForComparison(@),
              !.statusCol1 = normalizeForComparison(@),
              !.statusCol2 = normalizeForComparison(@),
              !.bedingung = normalizeForComparison(@)]

\* A section with every text normalized.
CanonicalSection(s) ==
  [s EXCEPT !.title = normalizeForComparison(@),
            !.pruefidentifikator =
               [i \in 1..Len(@) |-> normalizeForComparison(@[i])],
            !.kommunikationVon =
               [i \in 1..Len(@) |-> normalizeForComparison(@[i])],
            !.statusCol1Header = normalizeForComparison(@),
            !.statusCol2Header = normalizeForComparison(@),
            !.rows = [i \in 1..Len(@) |-> CanonicalRow(@[i])]]

\* The document that differs from parsed only by the characters that the
\* normalization strips or unifies.
Canonical(parsed) ==
  [parsed EXCEPT !.sections = [i \in 1..Len(@) |-> CanonicalSection(@[i])]]

\* The types of a result: of every SectionDiff and of its RowDiffs.
ResultTypes(result) ==
  [n \in 1..Len(result.sectionDiffs) |->
     [type |-> result.sectionDiffs[n].type,
      rows |-> TypesOf(result.sectionDiffs[n].rows)]]

\* C8: normalization is applied to every equality test of the comparison:
\* the pair of documents and the pair with every text normalized, which
\* differ only in presentation, get the same section-diff and row-diff
\* types.
C8_PresentationIgnored ==
  pc = "done" =>
    ResultTypes(comparison)
      = ResultTypes(compareDocuments(
                      insertDocument(insertDocument(createDatabase,
                                                    Canonical(parsed1)),
                                     Canonical(parsed2)),
                      1, 2))

\* The metadata fields of a matched pair that differ after normalization.
DifferingMeta(d) ==
  SelectSeq(MetaFields,
            LAMBDA f : normalizeForComparison(d.sectionOld[f])
                         # normalizeForComparison(d.sectionNew[f]))

\* C9: section classification: a key of both documents gets one
\* SectionDiff, modified if and only if one of its row diffs is not
\* unchanged or one of title, kommunikationVon, statusCol1Header,
\* statusCol2Header differs after normalization, else unchanged; its
\* metaChanges are non-empty exactly when one of the four differs.
C9_SectionClassification ==
  pc = "done" =>
    \A key \in Range(StoredKeys(1)) \cap Range(StoredKeys(2)) :
      /\ Cardinality(SectionDiffsOfKey(key)) = 1
      /\ \A n \in SectionDiffsOfKey(key) :
           LET d == comparison.sectionDiffs[n]
               rowChanged == \E i \in 1..Len(d.rows) :
                               d.rows[i].type # "unchanged"
               metaDiffers == DifferingMeta(d) # <<>>
           IN  /\ d.type \in {"modified", "unchanged"}
               /\ d.type = "modified" <=> (rowChanged \/ metaDiffers)
               /\ d.metaChanges # <<>> <=> metaDiffers
               /\ [i \in 1..Len(d.metaChanges) |-> d.metaChanges[i].field]
                    = DifferingMeta(d)

\* C9 witness: a section whose rows are all unchanged and whose
\* statusCol1Header alone differs: modified, with that one metaChange.
C9_Witness ==
  /\ pc = "done"
  /\ Len(comparison.sectionDiffs) = 1
  /\ comparison.sectionDiffs[1].type = "modified"
  /\ AllRowsUnchanged
  /\ comparison.sectionDiffs[1].metaChanges
       = <<[field |-> "statusCol1Header", old |-> Meldung, new |-> Status]>>

\* The place of a type in the output: modified, added, removed, unchanged.
RankOf(type) ==
  CASE type = "modified" -> 1
    [] type = "added" -> 2
    [] type = "removed" -> 3
    [] type = "unchanged" -> 4

\* The keys in the order they are first met: the old document's in section
\* order, then those only in the new document in section order.
FirstMet == InsertionOrder(StoredKeys(1) \o StoredKeys(2))

\* The place of a key in FirstMet.
MetAt(key) == CHOOSE i \in 1..Len(FirstMet) : FirstMet[i] = key

\* C10: output ordering: every modified SectionDiff precedes every added
\* one, every added every removed, every removed every unchanged; diffs of
\* one type keep the order in which their keys were first met.
C10_OutputOrdering ==
  pc = "done" =>
    \A m, n \in 1..Len(comparison.sectionDiffs) :
      m < n =>
        LET a == comparison.sectionDiffs[m]
            b == comparison.sectionDiffs[n]
        IN  /\ RankOf(a.type) <= RankOf(b.type)
            /\ a.type = b.type =>
                 MetAt(a.pruefidentifikator) < MetAt(b.pruefidentifikator)

\* C10 witness: the keys are met as removed, unchanged, modified, added and
\* come out as modified, added, removed, unchanged.
C10_Witness ==
  /\ pc = "done"
  /\ Len(StoredKeys(1)) = 3 /\ Len(StoredKeys(2)) = 3
  /\ TypesOf(comparison.sectionDiffs)
       = <<"modified", "added", "removed", "unchanged">>
  /\ [i \in 1..4 |-> comparison.sectionDiffs[i].pruefidentifikator]
       = <<FirstMet[3], FirstMet[4], FirstMet[1], FirstMet[2]>>

\* The ids of the sections of a stored document that are the first of
\* their key, in section order.
FirstSectionIds(docId) ==
  LET sections == getSections(db, docId)
  IN  {sections[i].id : i \in {k \in 1..Len(sections) :
         \A j \in 1..(k - 1) :
           sections[j].pruefidentifikator # sections[k].pruefidentifikator}}

\* The ids of the rows of these sections.
RowIdsOfSections(sectionIds) ==
  UNION {{getRows(db, sid)[i].id : i \in 1..Len(getRows(db, sid))} :
           sid \in sectionIds}

\* The ids of the sections that a SectionDiff holds.
SectionIdsIn(d) ==
  IF d.type \in {"added", "removed"} THEN {d.section.id}
  ELSE {d.sectionOld.id, d.sectionNew.id}

\* The ids of the rows that the RowDiffs of a SectionDiff hold or account
\* for.
RowIdsIn(d) ==
  IF d.type \in {"added", "removed"}
    THEN {d.rows[i].row.id : i \in 1..Len(d.rows)}
    ELSE ({OldIdOf(d.rows[i]) : i \in 1..Len(d.rows)}
            \cup {NewIdOf(d.rows[i]) : i \in 1..Len(d.rows)}) \ {0}

\* The sections of a list that are the first of their key.
FirstOfKeys(sections) ==
  LET keep == SelectSeq([i \in 1..Len(sections) |-> i],
                        LAMBDA i : \A j \in 1..(i - 1) :
                                     KeyOf(sections[j]) # KeyOf(sections[i]))
  IN  [j \in 1..Len(keep) |-> sections[keep[j]]]

\* A record without the fields that number it in the database.
Unnumbered(r) == [f \in DOMAIN r \ {"id", "sectionOrder"} |-> r[f]]

\* A RowDiff without the ids of its rows.
RowDiffContent(rd) ==
  IF rd.type = "modified"
    THEN [type |-> rd.type, rows |-> <<Unnumbered(rd.rowOld),
                                       Unnumbered(rd.rowNew)>>,
          changes |-> rd.changes]
    ELSE [type |-> rd.type, rows |-> <<Unnumbered(rd.row)>>, changes |-> <<>>]

\* A SectionDiff without the ids of its sections and rows.
SectionDiffContent(d) ==
  [type |-> d.type,
   pruefidentifikator |-> d.pruefidentifikator,
   sections |-> IF d.type \in {"added", "removed"}
                  THEN <<Unnumbered(d.section)>>
                  ELSE <<Unnumbered(d.sectionOld), Unnumbered(d.sectionNew)>>,
   metaChanges |-> IF d.type \in {"added", "removed"}
                     THEN <<>> ELSE d.metaChanges,
   rows |-> [i \in 1..Len(d.rows) |-> RowDiffContent(d.rows[i])]]

\* A ComparisonResult without the database ids.
ResultContent(result) ==
  [summary |-> result.summary,
   sectionDiffs |-> [n \in 1..Len(result.sectionDiffs) |->
                       SectionDiffContent(result.sectionDiffs[n])]]

\* C11: duplicate section keys: when a key occurs on several sections of
\* one document only the first of them takes part in matching: no
\* SectionDiff holds a later section of the key or one of its rows, and
\* the result is that of the two documents without their later duplicates.
C11_FirstOfKeyOnly ==
  pc = "done" =>
    /\ \A n \in 1..Len(comparison.sectionDiffs) :
         /\ SectionIdsIn(comparison.sectionDiffs[n])
              \subseteq (FirstSectionIds(1) \cup FirstSectionIds(2))
         /\ RowIdsIn(comparison.sectionDiffs[n])
              \subseteq RowIdsOfSections(FirstSectionIds(1)
                                           \cup FirstSectionIds(2))
    /\ ResultContent(comparison)
         = ResultContent(
             compareDocuments(
               insertDocument(
                 insertDocument(createDatabase,
                                Parsed(FirstOfKeys(parsed1.sections))),
                 Parsed(FirstOfKeys(parsed2.sections))),
               1, 2))

\* C11 witness: the new document holds the key of its first section again
\* on its third, with another title and row; the old document holds the
\* key once: one SectionDiff for the key, made of the first section.
C11_Witness ==
  /\ pc = "done"
  /\ Len(parsed1.sections) = 1
  /\ Len(parsed2.sections) = 3
  /\ KeyOf(parsed2.sections[1]) = KeyOf(parsed2.sections[3])
  /\ KeyOf(parsed2.sections[1]) = KeyOf(parsed1.sections[1])
  /\ parsed2.sections[1].title # parsed2.sections[3].title
  /\ parsed2.sections[1].rows # parsed2.sections[3].rows
  /\ Len(comparison.sectionDiffs) = 2
  /\ Cardinality(SectionDiffsOfKey(StoredKeys(1)[1])) = 1
  /\ \A n \in SectionDiffsOfKey(StoredKeys(1)[1]) :
       comparison.sectionDiffs[n].sectionNew.id = getSections(db, 2)[1].id

C19_EveryRowDiffHasKey ==
  pc = "done" =>
    \A n \in 1..Len(comparison.sectionDiffs) :
      \A i \in 1..Len(comparison.sectionDiffs[n].rows) :
        /\ "key" \in DOMAIN comparison.sectionDiffs[n].rows[i]
        /\ comparison.sectionDiffs[n].rows[i].key # <<>>

-----------------------------------------------------------------------------
(* parser.mjs: from the text items of a page to its parsed rows.  An item  *)
(* is [text, x, y]: parsePDF keeps the items whose text is not blank, with *)
(* white space collapsed and coordinates rounded.                          *)

ROW_Y_THRESHOLD == 5

COL ==
  [EDIFACT_MAX |-> 170, BESCHREIBUNG_MAX |-> 305, STATUS1_MAX |-> 370,
   STATUS2_MAX |-> 435]

EDIFACT_SUB == [SEG_GROUP_MAX |-> 88, SEG_CODE_MAX |-> 118]

\* Math.abs(a - b)
AbsDiff(a, b) == IF a >= b THEN a - b ELSE b - a

\* (a, b) => b.y - a.y || a.x - b.x is negative: a sorts before b.
SortsBefore(a, b) == a.y > b.y \/ (a.y = b.y /\ a.x < b.x)

\* The sorted list with item put behind every item it does not sort
\* before: Array.prototype.sort is stable.
RECURSIVE InsertItem(_, _)
InsertItem(sorted, item) ==
  IF sorted = <<>> THEN <<item>>
  ELSE IF SortsBefore(item, Head(sorted)) THEN <<item>> \o sorted
  ELSE <<Head(sorted)>> \o InsertItem(Tail(sorted), item)

\* [...items].sort((a, b) => b.y - a.y || a.x - b.x)
RECURSIVE SortItems(_)
SortItems(list) ==
  IF list = <<>> THEN <<>>
  ELSE InsertItem(SortItems(SubSeq(list, 1, Len(list) - 1)), list[Len(list)])

\* if (currentRow.length > 0) rows.push(currentRow)
PushRow(grouped, currentRow) ==
  IF Len(currentRow) > 0 THEN Append(grouped, currentRow) ELSE grouped

\* The loop of groupIntoRows from the i-th sorted item on: currentY is <<>>
\* for null and else holds the y of the item that started currentRow.
RECURSIVE GroupFrom(_, _, _, _, _)
GroupFrom(sorted, i, grouped, currentRow, currentY) ==
  IF i > Len(sorted) THEN PushRow(grouped, currentRow)
  ELSE IF currentY = <<>>
          \/ AbsDiff(sorted[i].y, currentY[1]) > ROW_Y_THRESHOLD
    THEN GroupFrom(sorted, i + 1, PushRow(grouped, currentRow),
                   <<sorted[i]>>, <<sorted[i].y>>)
    ELSE GroupFrom(sorted, i + 1, grouped, Append(currentRow, sorted[i]),
                   currentY)

groupIntoRows(list) == GroupFrom(SortItems(list), 1, <<>>, <<>>, <<>>)

classifyColumn(x) ==
  IF x < COL.EDIFACT_MAX THEN "edifact"
  ELSE IF x < COL.BESCHREIBUNG_MAX THEN "beschreibung"
  ELSE IF x < COL.STATUS1_MAX THEN "status1"
  ELSE IF x < COL.STATUS2_MAX THEN "status2"
  ELSE "bedingung"

classifyEdifactSub(x) ==
  IF x < EDIFACT_SUB.SEG_GROUP_MAX THEN "segmentGroup"
  ELSE IF x < EDIFACT_SUB.SEG_CODE_MAX THEN "segmentCode"
  ELSE "dataElement"

\* The field of the parsed row that an item at x goes to.
FieldOf(x) ==
  LET col == classifyColumn(x)
  IN  IF col = "edifact" THEN classifyEdifactSub(x)
      ELSE IF col = "status1" THEN "statusCol1"
      ELSE IF col = "status2" THEN "statusCol2"
      ELSE col

\* row.f = row.f ? row.f + ' ' + item.text : item.text
AppendText(value, itemText) ==
  IF value # <<>> THEN value \o <<" ">> \o itemText ELSE itemText

\* The texts of the items of rowItems that go to field, in the order of
\* rowItems.
TextsOf(rowItems, field) ==
  LET found == SelectSeq(rowItems, LAMBDA item : FieldOf(item.x) = field)
  IN  [j \in 1..Len(found) |-> found[j].text]

\* The identifier field after the loop of parseRow over rowItems.
RECURSIVE EdifactField(_, _)
EdifactField(rowItems, field) ==
  IF rowItems = <<>> THEN <<>>
  ELSE LET front == EdifactField(SubSeq(rowItems, 1, Len(rowItems) - 1), field)
           item == rowItems[Len(rowItems)]
       IN  IF FieldOf(item.x) = field THEN AppendText(front, item.text)
           ELSE front

parseRow(rowItems) ==
  [segmentGroup |-> EdifactField(rowItems, "segmentGroup"),
   segmentCode |-> EdifactField(rowItems, "segmentCode"),
   dataElement |-> EdifactField(rowItems, "dataElement"),
   beschreibung |-> Join(TextsOf(rowItems, "beschreibung"), <<" ">>),
   statusCol1 |-> Join(TextsOf(rowItems, "statusCol1"), <<" ">>),
   statusCol2 |-> Join(TextsOf(rowItems, "statusCol2"), <<" ">>),
   bedingung |-> Join(TextsOf(rowItems, "bedingung"), <<" ">>),
   y |-> IF rowItems = <<>> THEN 0 ELSE rowItems[1].y]

-----------------------------------------------------------------------------
(* One page: its items are grouped into visual rows and every visual row   *)
(* is parsed.                                                              *)

MaxItems == 3

\* One x in every column, two in segmentGroup and in beschreibung.
ColumnXs == {40, 60, 95, 130, 180, 240, 310, 380, 440}

\* The text printed at x.
TextAt(x) ==
  CASE x = 40 -> SG2
    [] x = 60 -> LF
    [] x = 95 -> CTA
    [] x = 130 -> DE3139
    [] x = 180 -> Name
    [] x = 240 -> ICInfo
    [] x = 310 -> Muss
    [] x = 380 -> X
    [] x = 440 -> Cond1

Item(x, y) == [text |-> TextAt(x), x |-> x, y |-> y]

\* Items of one line, in every column.
LineItems == {Item(x, 100) : x \in ColumnXs}

\* Items of three columns on base lines 5, 9 and 11 below the first, 4 and
\* 6 below the second and 2 below the third.
BaselineItems == {Item(x, y) : x \in {130, 180, 240}, y \in {100, 95, 91, 89}}

Pages == SeqsUpTo(LineItems, MaxItems) \cup SeqsUpTo(BaselineItems, MaxItems)

InitPage == pc = "start" /\ NormIdle /\ RowIdle /\ DocIdle /\ ParserIdle
  /\ WebIdle

ChoosePage ==
  /\ pc = "start"
  /\ \E page \in Pages : items' = page
  /\ pc' = "page"
  /\ UNCHANGED <<webVars, visualRows, parsedRows, buildVars, normVars, rowVars,
                 docVars>>

GroupIntoRows ==
  /\ pc = "page"
  /\ visualRows' = groupIntoRows(items)
  /\ pc' = "grouped"
  /\ UNCHANGED <<webVars, items, parsedRows, buildVars, normVars, rowVars, docVars>>

ParseRows ==
  /\ pc = "grouped"
  /\ parsedRows' = [k \in 1..Len(visualRows) |-> parseRow(visualRows[k])]
  /\ pc' = "parsed"
  /\ UNCHANGED <<webVars, items, visualRows, buildVars, normVars, rowVars, docVars>>

NextPage == ChoosePage \/ GroupIntoRows \/ ParseRows

SpecPage == InitPage /\ [][NextPage]_vars

\* The items of list in ascending x order, items of one x in list order.
RECURSIVE ByX(_)
ByX(list) ==
  IF list = <<>> THEN <<>>
  ELSE LET front == ByX(SubSeq(list, 1, Len(list) - 1))
           item == list[Len(list)]
           left == SelectSeq(front, LAMBDA other : other.x <= item.x)
           right == SelectSeq(front, LAMBDA other : other.x > item.x)
       IN  left \o <<item>> \o right

\* C15: the visual rows hold the items sorted by descending y, then
\* ascending x; an item is in the visual row of the item before it when
\* their y-distance is within the tolerance 5, and starts a new visual row
\* otherwise.
C15_GroupedByPreviousItem ==
  pc \in {"grouped", "parsed"} =>
    LET sorted == Flatten(visualRows)
    IN  /\ Len(sorted) = Len(items)
        /\ \A i \in 1..(Len(sorted) - 1) :
             ~SortsBefore(sorted[i + 1], sorted[i])
        /\ \A k \in 1..Len(visualRows) :
             \A i \in 1..(Len(visualRows[k]) - 1) :
               AbsDiff(visualRows[k][i + 1].y, visualRows[k][i].y)
                 <= ROW_Y_THRESHOLD
        /\ \A k \in 1..(Len(visualRows) - 1) :
             AbsDiff(visualRows[k + 1][1].y,
                     visualRows[k][Len(visualRows[k])].y) > ROW_Y_THRESHOLD

\* C16: every field of a parsed row is the texts of the items of its
\* visual row that fall in the column of the field, in ascending x order,
\* joined by a space.
C16_JoinedInXOrder ==
  pc = "parsed" =>
    \A k \in 1..Len(visualRows) :
      \A field \in {"segmentGroup", "segmentCode", "dataElement",
                    "beschreibung", "statusCol1", "statusCol2",
                    "bedingung"} :
        parsedRows[k][field]
          = Join(TextsOf(ByX(visualRows[k]), field), <<" ">>)

-----------------------------------------------------------------------------
(* parser.mjs: the tests of buildSections on a parsed row.                 *)

\* The letters toLowerCase changes and what it makes of them.
CaseLetters ==
  [upper |->
     <<"A", "B", "C", "D", "E", "F", "G", "H", "I", "J", "K", "L", "M", "N",
       "O", "P", "Q", "R", "S", "T", "U", "V", "W", "X", "Y", "Z", "U+00C4",
       "U+00D6", "U+00DC">>,
   lower |->
     <<"a", "b", "c", "d", "e", "f", "g", "h", "i", "j", "k", "l", "m", "n",
       "o", "p", "q", "r", "s", "t", "u", "v", "w", "x", "y", "z", "U+00E4",
       "U+00F6", "U+00FC">>]

\* String.prototype.toLowerCase, on the letters of the AHB texts.
toLowerCase(s) ==
  [i \in 1..Len(s) |->
     IF \E n \in 1..Len(CaseLetters.upper) : CaseLetters.upper[n] = s[i]
       THEN CaseLetters.lower[CHOOSE n \in 1..Len(CaseLetters.upper) :
                                CaseLetters.upper[n] = s[i]]
       ELSE s[i]]

\* String.prototype.includes
includes(s, word) ==
  \E i \in 1..(Len(s) + 1) :
    /\ i + Len(word) - 1 <= Len(s)
    /\ SubSeq(s, i, i + Len(word) - 1) = word

\* 'pr\u00FCfidentifikator'
PruefWord ==
  <<"p", "r", "U+00FC", "f", "i", "d", "e", "n", "t", "i", "f", "i", "k",
    "a", "t", "o", "r">>

\* 'kommunikation von'
KommunikationVonWord ==
  <<"k", "o", "m", "m", "u", "n", "i", "k", "a", "t", "i", "o", "n", " ",
    "v", "o", "n">>

isTableHeader(row) ==
  LET combined == toLowerCase(row.segmentGroup \o <<" ">> \o row.beschreibung)
  IN  /\ includes(combined, <<"e", "d", "i", "f", "a", "c", "t">>)
      /\ includes(combined, 
           <<"s", "t", "r", "u", "k", "t", "u", "r">>)

\* isPruefidentifikatorHeader without the test of the status columns.
isPruefidentifikatorHeaderByWord(row) ==
  includes(toLowerCase(row.beschreibung), PruefWord)

\* isPruefidentifikatorHeader that knows one code in a status column only.
isPruefidentifikatorHeaderSingleCode(row) ==
  /\ includes(toLowerCase(row.beschreibung), PruefWord)
  /\ \/ IsDigits(Trim(row.statusCol1), 5, 5)
     \/ IsDigits(Trim(row.statusCol2), 5, 5)

isPruefidentifikatorHeader(row) ==
  /\ includes(toLowerCase(row.beschreibung), PruefWord)
  /\ hasNumericId(row.statusCol1, row.statusCol2)

isKommunikationVon(row) ==
  includes(toLowerCase(row.beschreibung), KommunikationVonWord)

\* The words isStatusColumnHeader looks for in statusCol1.
StatusWords ==
  { <<"m", "e", "l", "d", "u", "n", "g">>,
    <<"s", "t", "a", "t", "u", "s">>,
    <<"a", "n", "t", "w", "o", "r", "t">>,
    <<"b", "e", "s", "t", "e", "l", "l", "u", "n", "g">>,
    <<"m", "i", "t", "t", "e", "i", "l", "u", "n", "g">>,
    <<"i", "n", "f", "o", "r", "m", "a", "t", "i", "o", "n">>,
    <<"k", "o", "n", "f", "i", "g", "u", "r", "a", "t", "i", "o", "n">>,
    <<"U+00FC", "b", "e", "r", "m", "i", "t", "t", "l", "u", "n", "g">> }

isStatusColumnHeader(row) ==
  /\ row.segmentGroup = <<>> /\ row.segmentCode = <<>>
  /\ \E word \in StatusWords : includes(toLowerCase(row.statusCol1), word)

\* A continuation test that a bare description does not pass.
isContinuationRowBeyondDescription(row) ==
  /\ row.segmentGroup = <<>> /\ row.segmentCode = <<>>
  /\ row.dataElement = <<>>
  /\ \/ row.statusCol1 # <<>> \/ row.statusCol2 # <<>>
     \/ row.bedingung # <<>>

isContinuationRow(row) ==
  /\ row.segmentGroup = <<>> /\ row.segmentCode = <<>>
  /\ row.dataElement = <<>>
  /\ \/ row.beschreibung # <<>> \/ row.statusCol1 # <<>>
     \/ row.statusCol2 # <<>> \/ row.bedingung # <<>>

-----------------------------------------------------------------------------
(* parser.mjs: buildSections.  Its locals are the fields of one record;    *)
(* current is <<>> for null and else holds the open section; lastRow is    *)
(* the index in rows of the row it refers to, 0 for null.                  *)

\* The locals of buildSections when it starts.
NoSections ==
  [sections |-> <<>>, current |-> <<>>, rows |-> <<>>, lastRow |-> 0,
   pendingTitle |-> <<>>]

\* A finalizeSection that pushes nothing.
finalizeSectionNever(b) == b

finalizeSection(b) ==
  IF b.current # <<>>
    THEN [b EXCEPT !.sections = Append(@, [b.current[1] EXCEPT
                                             !.rows = b.rows]),
                   !.rows = <<>>,
                   !.lastRow = 0]
    ELSE b

\* [parsed.statusCol1, parsed.statusCol2].filter(Boolean).map(s => s.trim())
StatusTexts(parsed) ==
  LET kept == NonEmpty(<<parsed.statusCol1, parsed.statusCol2>>)
  IN  [i \in 1..Len(kept) |-> Trim(kept[i])]

\* A header test that takes no header for a repeated one.
IsRepeatedHeaderNever(b, parsed) == FALSE

\* current && newPruefKey === currentPruefKey
IsRepeatedHeader(b, parsed) ==
  /\ b.current # <<>>
  /\ Join(StatusTexts(parsed), <<",">>)
       = Join(b.current[1].pruefidentifikator, <<",">>)

\* The branch of the loop body that the parsed row takes.
BranchOf(b, parsed) ==
  IF isTableHeader(parsed) THEN "tableHeader"
  ELSE IF isPruefidentifikatorHeader(parsed)
    THEN IF IsRepeatedHeader(b, parsed) THEN "repeatedHeader"
         ELSE "newSection"
  ELSE IF isKommunikationVon(parsed) /\ b.current # <<>>
    THEN "kommunikationVon"
  ELSE IF isStatusColumnHeader(parsed) /\ b.current # <<>>
    THEN "statusColumnHeader"
  ELSE IF b.current = <<>> THEN "beforeFirstSection"
  ELSE IF isDataRow(parsed) THEN "dataRow"
  ELSE IF isContinuationRow(parsed) /\ b.lastRow # 0 THEN "continuation"
  ELSE IF isSectionLabel(parsed) THEN "label"
  ELSE "dropped"

\* A new section that leaves lastRow as it is.
OpenSectionKeepingTarget(b, parsed, pageNum) ==
  [finalizeSection(b) EXCEPT
     !.current = <<[title |-> Trim(b.pendingTitle),
                    pruefidentifikator |-> StatusTexts(parsed),
                    kommunikationVon |-> <<>>,
                    statusCol1Header |-> <<>>,
                    statusCol2Header |-> <<>>,
                    pageStart |-> pageNum,
                    rows |-> <<>>]>>,
     !.pendingTitle = <<>>,
     !.lastRow = b.lastRow]

\* A new section that leaves pendingTitle as it is.
OpenSectionKeepingTitle(b, parsed, pageNum) ==
  [finalizeSection(b) EXCEPT
     !.current = <<[title |-> Trim(b.pendingTitle),
                    pruefidentifikator |-> StatusTexts(parsed),
                    kommunikationVon |-> <<>>,
                    statusCol1Header |-> <<>>,
                    statusCol2Header |-> <<>>,
                    pageStart |-> pageNum,
                    rows |-> <<>>]>>,
     !.lastRow = 0]

\* A genuinely new section: finalizeSection(), current = {...}.
OpenSection(b, parsed, pageNum) ==
  [finalizeSection(b) EXCEPT
     !.current = <<[title |-> Trim(b.pendingTitle),
                    pruefidentifikator |-> StatusTexts(parsed),
                    kommunikationVon |-> <<>>,
                    statusCol1Header |-> <<>>,
                    statusCol2Header |-> <<>>,
                    pageStart |-> pageNum,
                    rows |-> <<>>]>>,
     !.pendingTitle = <<>>,
     !.lastRow = 0]

\* lastRow.f += ' ' + parsed.f.trim(), if parsed.f is not empty.
Continued(value, more) ==
  IF more # <<>> THEN value \o <<" ">> \o Trim(more) ELSE value

\* A continuation branch in which the first row of the section takes the
\* texts.
AppendToFirstRow(b, parsed) ==
  [b EXCEPT
     !.rows[1] =
       [@ EXCEPT !.beschreibung = Continued(@, parsed.beschreibung),
                 !.statusCol1 = Continued(@, parsed.statusCol1),
                 !.statusCol2 = Continued(@, parsed.statusCol2),
                 !.bedingung = Continued(@, parsed.bedingung)]]

\* The continuation branch: the row lastRow refers to takes the texts.
AppendToLastRow(b, parsed) ==
  [b EXCEPT
     !.rows[b.lastRow] =
       [@ EXCEPT !.beschreibung = Continued(@, parsed.beschreibung),
                 !.statusCol1 = Continued(@, parsed.statusCol1),
                 !.statusCol2 = Continued(@, parsed.statusCol2),
                 !.bedingung = Continued(@, parsed.bedingung)]]

\* rows.push(row); lastRow = row
PushLastRow(b, row) ==
  [b EXCEPT !.rows = Append(@, row), !.lastRow = Len(b.rows) + 1]

\* The loop body of buildSections for one parsed row of page pageNum,
\* given the branch the row takes.
BodyOf(branch, b, parsed, pageNum) ==
  CASE branch = "tableHeader" -> b
    [] branch = "repeatedHeader" -> b
    [] branch = "newSection" -> OpenSection(b, parsed, pageNum)
    [] branch = "kommunikationVon" ->
         IF Len(b.current[1].kommunikationVon) = 0
           THEN [b EXCEPT !.current[1].kommunikationVon = StatusTexts(parsed)]
           ELSE b
    [] branch = "statusColumnHeader" ->
         IF b.current[1].statusCol1Header = <<>>
           THEN [b EXCEPT
                   !.current[1].statusCol1Header = Trim(parsed.statusCol1),
                   !.current[1].statusCol2Header = Trim(parsed.statusCol2)]
           ELSE b
    [] branch = "beforeFirstSection" ->
         IF parsed.beschreibung # <<>> /\ parsed.segmentGroup = <<>>
           THEN [b EXCEPT !.pendingTitle = parsed.beschreibung]
           ELSE b
    [] branch = "dataRow" ->
         PushLastRow(b, DataRow(Trim(parsed.segmentGroup),
                                Trim(parsed.segmentCode),
                                Trim(parsed.dataElement),
                                Trim(parsed.beschreibung),
                                Trim(parsed.statusCol1),
                                Trim(parsed.statusCol2),
                                Trim(parsed.bedingung)))
    [] branch = "continuation" -> AppendToLastRow(b, parsed)
    [] branch = "label" ->
         [PushLastRow(b, LabelRow(Trim(parsed.beschreibung))) EXCEPT
            !.pendingTitle = parsed.beschreibung]
    [] branch = "dropped" -> b

LoopBody(b, parsed, pageNum) == BodyOf(BranchOf(b, parsed), b, parsed, pageNum)

-----------------------------------------------------------------------------
(* buildSections over the parsed rows of a document, row by row.           *)

MaxVisualRows == 4

\* The visual rows of a page.
RowsPerPage == 2

\* 'EDIFACT Struktur'
EdifactStruktur ==
  <<"E", "D", "I", "F", "A", "C", "T", " ", "S", "t", "r", "u", "k", "t",
    "u", "r">>

\* 'Pr\u00FCfidentifikator'
Pruefidentifikator ==
  <<"P", "r", "U+00FC", "f", "i", "d", "e", "n", "t", "i", "f", "i", "k",
    "a", "t", "o", "r">>

\* 'Kommunikation von'
KommunikationVon ==
  <<"K", "o", "m", "m", "u", "n", "i", "k", "a", "t", "i", "o", "n", " ",
    "v", "o", "n">>

\* '21025 21026'
Codes21025and21026 ==
  <<"2", "1", "0", "2", "5", " ", "2", "1", "0", "2", "6">>

\* What parseRow returns.
ParsedRow(sg, sc, de, b, s1, s2, bed) ==
  [segmentGroup |-> sg, segmentCode |-> sc, dataElement |-> de,
   beschreibung |-> b, statusCol1 |-> s1, statusCol2 |-> s2,
   bedingung |-> bed, y |-> 100]

\* The rows of an AHB table: the table header, section headers with one
\* code, with two codes in two columns and with two codes in one column,
\* the marker word without a code, the two metadata rows, a data row, a
\* row with unknown identifiers, a row with an unknown dataElement only, a
\* second line of a cell and a label.
ParsedPool ==
  { ParsedRow(EdifactStruktur, Empty, Empty, Name, Empty, Empty, Empty),
    ParsedRow(Empty, Empty, Empty, Pruefidentifikator, Code21000, Empty,
              Empty),
    ParsedRow(Empty, Empty, Empty, Pruefidentifikator, Code21025, Code21027,
              Empty),
    ParsedRow(Empty, Empty, Empty, Pruefidentifikator, Codes21025and21026, X,
              Empty),
    ParsedRow(Empty, Empty, Empty, Pruefidentifikator, Empty, Empty, Empty),
    ParsedRow(Empty, Empty, Empty, KommunikationVon, LF, NB, Empty),
    ParsedRow(Empty, Empty, Empty, Empty, Meldung, Status, Empty),
    ParsedRow(SG2, CTA, DE3139, Name, Muss, X, Cond1),
    ParsedRow(LF, NB, Empty, Name, Empty, Empty, Empty),
    ParsedRow(Empty, Empty, X, Name, Empty, Empty, Empty),
    ParsedRow(Empty, Empty, Empty, ICInfo, Muss, Empty, Cond1),
    ParsedRow(Empty, Empty, Empty, Sendungsdaten, Empty, Empty, Empty) }

\* The rows around the metadata of a section: two section headers, the
\* direction row with two contents and without one, the status header row
\* with two contents, a data row, a data row that mentions the marker
\* word, and a description with a condition.
MetadataPool ==
  { ParsedRow(Empty, Empty, Empty, Pruefidentifikator, Code21000, Empty,
              Empty),
    ParsedRow(Empty, Empty, Empty, Pruefidentifikator, Code21025, Code21027,
              Empty),
    ParsedRow(Empty, Empty, Empty, KommunikationVon, LF, NB, Empty),
    ParsedRow(Empty, Empty, Empty, KommunikationVon, NB, LF, Empty),
    ParsedRow(Empty, Empty, Empty, KommunikationVon, Empty, Empty, Empty),
    ParsedRow(Empty, Empty, Empty, Empty, Meldung, Status, Empty),
    ParsedRow(Empty, Empty, Empty, Empty, Status, Meldung, Empty),
    ParsedRow(SG2, CTA, DE3139, Name, Muss, X, Cond1),
    ParsedRow(Empty, Empty, Empty, Pruefidentifikator, X, Muss, Empty),
    ParsedRow(Empty, Empty, Empty, Name, Empty, Empty, Cond1) }

\* A document is made of the rows of one of the pools.
ParsedPools == {ParsedPool, MetadataPool}

\* The page of the n-th visual row of the document.
PageOf(n) == 1 + ((n - 1) \div RowsPerPage)

InitBuild == pc = "start" /\ NormIdle /\ RowIdle /\ DocIdle /\ ParserIdle
  /\ WebIdle

\* buildSections is called.
StartBuild ==
  /\ pc = "start"
  /\ build' = NoSections
  /\ pc' = "building"
  /\ UNCHANGED <<webVars, log, before, structured, pageVars, normVars, rowVars,
                 docVars>>

\* One pass of the loop over the visual rows.
MeetRow ==
  /\ pc = "building"
  /\ Len(log) < MaxVisualRows
  /\ \E pool \in ParsedPools, parsed \in UNION ParsedPools :
       /\ parsed \in pool
       /\ \A i \in 1..Len(log) : log[i].parsed \in pool
       /\ build' = LoopBody(build, parsed, PageOf(Len(log) + 1))
       /\ log' = Append(log, [parsed |-> parsed,
                              branch |-> BranchOf(build, parsed),
                              pageNum |-> PageOf(Len(log) + 1)])
  /\ before' = build
  /\ UNCHANGED <<webVars, pc, structured, pageVars, normVars, rowVars, docVars>>

\* The pages are through: finalizeSection(); return sections.
Finalize ==
  /\ pc = "building"
  /\ build' = finalizeSection(build)
  /\ structured' = finalizeSection(build).sections
  /\ pc' = "structured"
  /\ UNCHANGED <<webVars, log, before, pageVars, normVars, rowVars, docVars>>

NextBuild == StartBuild \/ MeetRow \/ Finalize

SpecBuild == InitBuild /\ [][NextBuild]_vars

\* C13: every section that buildSections returns has a pruefidentifikator
\* list of at least one element, whatever rows were met.
C13_PruefidentifikatorNonEmpty ==
  pc = "structured" =>
    \A n \in 1..Len(structured) :
      Len(structured[n].pruefidentifikator) >= 1

\* C13 witness: two sections are returned, one opened by a header with a
\* code in one status column, one by a header with both columns filled,
\* and a row with the marker word and no code was met in between.
C13_Witness ==
  /\ pc = "structured"
  /\ Len(structured) = 2
  /\ Len(log) = 3
  /\ log[2].parsed.beschreibung = Pruefidentifikator
  /\ log[2].parsed.statusCol1 = Empty
  /\ structured[1].pruefidentifikator = <<Code21000>>
  /\ structured[2].pruefidentifikator = <<Code21025, Code21027>>

\* C17: a row that reaches the data-row test is appended to the current
\* section as a new row, and becomes the continuation target, exactly when
\* its segmentGroup is SG and digits, or its segmentCode is a known
\* segment, or its dataElement is a number of 4 or 5 digits.
C17_DataRowIffRecognized ==
  (pc = "building" /\ log # <<>>) =>
    LET last == log[Len(log)]
        appended ==
          /\ Len(build.rows) = Len(before.rows) + 1
          /\ ~build.rows[Len(build.rows)].isLabel
          /\ build.lastRow = Len(build.rows)
    IN  last.branch \in {"dataRow", "continuation", "label", "dropped"} =>
          (appended <=> hasEdifactContent(last.parsed))

\* C18: every element of the pruefidentifikator list of every section that
\* buildSections returns is a string of exactly 5 digits.
C18_FiveDigitCodes ==
  pc = "structured" =>
    \A n \in 1..Len(structured) :
      \A i \in 1..Len(structured[n].pruefidentifikator) :
        IsDigits(structured[n].pruefidentifikator[i], 5, 5)

\* The row is a section header with the codes of the section b.current.
RepeatsHeaderOf(b, parsed) ==
  /\ ~isTableHeader(parsed)
  /\ isPruefidentifikatorHeader(parsed)
  /\ b.current # <<>>
  /\ Join(StatusTexts(parsed), <<",">>)
       = Join(b.current[1].pruefidentifikator, <<",">>)

\* C20: a section header whose comma-joined codes are those of the current
\* section is discarded: the finalized sections, the current section with
\* its metadata, its rows, the pending title and the continuation target
\* are what they were; a continuation row met right after it is appended
\* to the row that was the last one before the header, and adds no row.
C20_RepeatedHeaderDiscarded ==
  (pc = "building" /\ log # <<>>) =>
    LET n == Len(log)
    IN  /\ RepeatsHeaderOf(before, log[n].parsed) => build = before
        /\ ( /\ n >= 2
             /\ log[n - 1].branch = "repeatedHeader"
             /\ before.lastRow # 0
             /\ ~isTableHeader(log[n].parsed)
             /\ ~isPruefidentifikatorHeader(log[n].parsed)
             /\ ~isKommunikationVon(log[n].parsed)
             /\ ~isStatusColumnHeader(log[n].parsed)
             /\ isContinuationRow(log[n].parsed) )
           => /\ Len(build.rows) = Len(before.rows)
              /\ build.lastRow = before.lastRow
              /\ before.lastRow = Len(before.rows)
              /\ \A field \in {"beschreibung", "statusCol1", "statusCol2",
                               "bedingung"} :
                   build.rows[build.lastRow][field]
                     = Continued(before.rows[before.lastRow][field],
                                 log[n].parsed[field])

\* C20 witness: a header, a data row, on the next page the header again
\* and the second line of a cell of the data row: one row, with the text
\* of the second line at its end.
C20_Witness ==
  /\ pc = "building"
  /\ Len(log) = 4
  /\ log[1].branch = "newSection"
  /\ log[2].branch = "dataRow"
  /\ log[3].branch = "repeatedHeader"
  /\ log[3].pageNum = log[2].pageNum + 1
  /\ log[3].parsed = log[1].parsed
  /\ log[4].branch = "continuation"
  /\ build.sections = <<>>
  /\ Len(build.rows) = 1
  /\ build.rows[1].beschreibung = Name \o <<" ">> \o ICInfo
  /\ build.rows[1].bedingung = Cond1 \o <<" ">> \o Cond1

\* The text is 5 digits, or two codes of 5 digits with white space between.
IsCodeField(field) ==
  \/ IsDigits(field, 5, 5)
  \/ \E i \in 6..(Len(field) - 5) :
       /\ IsDigits(SubSeq(field, 1, 5), 5, 5)
       /\ \A j \in 6..i : field[j] \in RegexSpaceChars
       /\ IsDigits(SubSeq(field, i + 1, Len(field)), 5, 5)

\* The description holds the marker word in any case and a status field
\* holds a code or two.
HasMarkerAndCode(parsed) ==
  /\ \E i \in 1..Len(parsed.beschreibung) :
       /\ i + Len(PruefWord) - 1 <= Len(parsed.beschreibung)
       /\ toLowerCase(SubSeq(parsed.beschreibung, i, i + Len(PruefWord) - 1))
            = PruefWord
  /\ IsCodeField(parsed.statusCol1) \/ IsCodeField(parsed.statusCol2)

\* The last row opened a section.
SectionOpened ==
  /\ build.current # <<>>
  /\ build.current # before.current
  /\ build.current[1].rows = <<>>
  /\ build.rows = <<>>
  /\ build.sections
       = IF before.current = <<>> THEN before.sections
         ELSE Append(before.sections,
                     [before.current[1] EXCEPT !.rows = before.rows])

\* C21: a row that is no table header is treated as a section header (it
\* opens a section, or is discarded as the header of the current section)
\* if and only if its description holds the marker word, in any case, and
\* statusCol1 or statusCol2 is 5 digits or two 5-digit codes separated by
\* white space; a row with the marker word and other status values opens
\* no section.
C21_HeaderIffMarkerAndCode ==
  (pc = "building" /\ log # <<>> /\ ~isTableHeader(log[Len(log)].parsed)) =>
    LET parsed == log[Len(log)].parsed
    IN  IF HasMarkerAndCode(parsed)
          THEN \/ /\ SectionOpened
                  /\ build.current[1].pruefidentifikator
                       = NonEmpty(<<parsed.statusCol1, parsed.statusCol2>>)
               \/ /\ before.current # <<>>
                  /\ before.current[1].pruefidentifikator
                       = NonEmpty(<<parsed.statusCol1, parsed.statusCol2>>)
                  /\ build = before
          ELSE /\ ~SectionOpened
               /\ build.sections = before.sections
               /\ (build.current = <<>>) <=> (before.current = <<>>)
               /\ build.current # <<>> =>
                    build.current[1].pruefidentifikator
                      = before.current[1].pruefidentifikator

\* C21 witness: after a header with two codes, a row with the marker word
\* and X and Muss as status values: no section opens, the section of the
\* header stays the current one.
C21_Witness ==
  /\ pc = "building"
  /\ Len(log) = 2
  /\ log[1].parsed.statusCol1 = Code21025
  /\ log[2].parsed.beschreibung = Pruefidentifikator
  /\ log[2].parsed.statusCol1 = X
  /\ log[2].parsed.statusCol2 = Muss
  /\ build.sections = <<>>
  /\ build.current = before.current
  /\ build.current[1].pruefidentifikator = <<Code21025, Code21027>>

\* The free-text fields of a row.
TextFieldNames == {"beschreibung", "statusCol1", "statusCol2", "bedingung"}

\* The row has no segmentGroup, segmentCode and dataElement and a text in
\* a free-text field.
ContinuationShaped(parsed) ==
  /\ parsed.segmentGroup = <<>> /\ parsed.segmentCode = <<>>
  /\ parsed.dataElement = <<>>
  /\ \E field \in TextFieldNames : parsed[field] # <<>>

\* The row is a table header, a section header or, a section being open,
\* a metadata row: b is the state it is met in.
HeaderOrMetadata(b, parsed) ==
  \/ isTableHeader(parsed)
  \/ HasMarkerAndCode(parsed)
  \/ (b.current # <<>> /\ isKommunikationVon(parsed))
  \/ (b.current # <<>> /\ isStatusColumnHeader(parsed))

\* C22: a row without segmentGroup, segmentCode and dataElement and with a
\* free text, that is no header and no metadata row and is met while the
\* current section has a row, adds no row: each of its non-empty free-text
\* fields is appended, after a space, to the same field of the row
\* appended last, also on the next page; the other fields of that row and
\* the other rows are unchanged.
C22_ContinuationMerged ==
  (pc = "building" /\ log # <<>>) =>
    LET parsed == log[Len(log)].parsed
        last == Len(before.rows)
    IN  ( /\ ContinuationShaped(parsed)
          /\ ~HeaderOrMetadata(before, parsed)
          /\ before.current # <<>>
          /\ last >= 1 )
        => /\ Len(build.rows) = last
           /\ build.sections = before.sections
           /\ build.current = before.current
           /\ \A i \in 1..(last - 1) : build.rows[i] = before.rows[i]
           /\ \A field \in TextFieldNames :
                build.rows[last][field]
                  = IF parsed[field] # <<>>
                      THEN before.rows[last][field] \o <<" ">> \o parsed[field]
                      ELSE before.rows[last][field]
           /\ \A field \in {"segmentGroup", "segmentCode", "dataElement",
                            "isLabel"} :
                build.rows[last][field] = before.rows[last][field]

\* C22 witness: a header and a data row on page 1, the second line of its
\* cells on page 2: one row, the texts of the second line at the end of
\* its beschreibung, statusCol1 and bedingung, its statusCol2 as it was.
C22_Witness ==
  /\ pc = "building"
  /\ Len(log) = 3
  /\ log[2].pageNum = 1
  /\ log[3].pageNum = 2
  /\ log[3].parsed.beschreibung = ICInfo
  /\ log[3].parsed.statusCol2 = Empty
  /\ Len(build.rows) = 1
  /\ build.rows[1].segmentGroup = SG2
  /\ build.rows[1].beschreibung = Name \o <<" ">> \o ICInfo
  /\ build.rows[1].statusCol1 = Muss \o <<" ">> \o Muss
  /\ build.rows[1].statusCol2 = X
  /\ build.rows[1].bedingung = Cond1 \o <<" ">> \o Cond1

\* The index in log of the header that opened the current section, 0 if
\* no section is open.
OpenedAt ==
  LET opened == {j \in 1..Len(log) : log[j].branch = "newSection"}
  IN  IF opened = {} THEN 0
      ELSE CHOOSE j \in opened : \A other \in opened : other <= j

\* The row is a communication-direction row.
DirectionRow(parsed) ==
  /\ ~isTableHeader(parsed) /\ ~HasMarkerAndCode(parsed)
  /\ isKommunikationVon(parsed)

\* The row is a status-header row.
StatusHeaderRow(parsed) ==
  /\ ~isTableHeader(parsed) /\ ~HasMarkerAndCode(parsed)
  /\ ~isKommunikationVon(parsed)
  /\ isStatusColumnHeader(parsed)

\* C23: within one section the first communication-direction row fixes
\* kommunikationVon and the first status-header row fixes statusCol1Header
\* and statusCol2Header; a later row of the same kind in the section
\* changes nothing, and none of these rows adds a row.
C23_FirstMetadataWins ==
  (pc = "building" /\ log # <<>> /\ before.current # <<>>) =>
    LET n == Len(log)
        parsed == log[n].parsed
        earlier == (OpenedAt + 1)..(n - 1)
    IN  /\ DirectionRow(parsed) =>
             IF \E j \in earlier : DirectionRow(log[j].parsed)
               THEN build = before
               ELSE build
                      = [before EXCEPT
                           !.current[1].kommunikationVon
                             = NonEmpty(<<parsed.statusCol1,
                                          parsed.statusCol2>>)]
        /\ StatusHeaderRow(parsed) =>
             IF \E j \in earlier : StatusHeaderRow(log[j].parsed)
               THEN build = before
               ELSE build
                      = [before EXCEPT
                           !.current[1].statusCol1Header = parsed.statusCol1,
                           !.current[1].statusCol2Header = parsed.statusCol2]

\* The row holds a description and nothing else.
DescriptionOnly(parsed) ==
  /\ parsed.segmentGroup = <<>> /\ parsed.segmentCode = <<>>
  /\ parsed.dataElement = <<>>
  /\ parsed.beschreibung # <<>>
  /\ parsed.statusCol1 = <<>> /\ parsed.statusCol2 = <<>>
  /\ parsed.bedingung = <<>>

\* The rows met since the current section was opened that were appended
\* as a label, by their index in log.
LabelsSinceOpened(n) ==
  {j \in (OpenedAt + 1)..n :
     /\ DescriptionOnly(log[j].parsed)
     /\ log[j].branch = "label"}

\* C24: a row with a description and nothing else, that no earlier test of
\* the chain takes (it is no header and no metadata row, a section is open
\* and has no row to continue), is appended to the current section as a
\* row with isLabel = true and its other fields empty, and its description
\* is the pending title; the next section that opens has the pending
\* title, trimmed, as its title, and the pending title is empty then.
C24_LabelAndPendingTitle ==
  (pc = "building" /\ log # <<>>) =>
    LET n == Len(log)
        parsed == log[n].parsed
    IN  /\ ( /\ DescriptionOnly(parsed)
             /\ ~HeaderOrMetadata(before, parsed)
             /\ before.current # <<>>
             /\ before.rows = <<>> )
           => build
                = [before EXCEPT
                     !.rows = <<[segmentGroup |-> <<>>, segmentCode |-> <<>>,
                                 dataElement |-> <<>>,
                                 beschreibung |-> parsed.beschreibung,
                                 statusCol1 |-> <<>>, statusCol2 |-> <<>>,
                                 bedingung |-> <<>>, isLabel |-> TRUE]>>,
                     !.lastRow = 1,
                     !.pendingTitle = parsed.beschreibung]
        /\ \A j \in LabelsSinceOpened(n) :
             build.pendingTitle = log[j].parsed.beschreibung
        /\ SectionOpened =>
             /\ build.current[1].title = Trim(before.pendingTitle)
             /\ build.pendingTitle = <<>>

\* C24 witness: a header, a label and a second header: the section of the
\* second header has the description of the label as its title, the
\* section of the first header holds the label row, and the pending title
\* is empty.
C24_Witness ==
  /\ pc = "building"
  /\ Len(log) = 3
  /\ log[2].parsed.beschreibung = Sendungsdaten
  /\ before.pendingTitle = Sendungsdaten
  /\ Len(build.sections) = 1
  /\ build.sections[1].title = Empty
  /\ build.sections[1].rows = <<LabelRow(Sendungsdaten)>>
  /\ build.current # <<>>
  /\ build.current[1].title = Sendungsdaten
  /\ build.pendingTitle = Empty

\* C25: a row without segmentGroup, segmentCode and dataElement that
\* carries a free text beyond a bare description (a description and a
\* condition, or a status text), is no header and no metadata row and is
\* met while the current section has no row, adds no row to a section and
\* changes no row.
C25_ContinuationWithoutRowDropped ==
  (pc = "building" /\ log # <<>>) =>
    LET parsed == log[Len(log)].parsed
    IN  ( /\ ContinuationShaped(parsed)
          /\ ~DescriptionOnly(parsed)
          /\ ~HeaderOrMetadata(before, parsed)
          /\ before.current # <<>>
          /\ before.rows = <<>> )
        => /\ build.rows = <<>>
           /\ build.sections = before.sections
           /\ build.current = before.current

\* The rows of log at which a section was opened, in order.
OpeningRows ==
  SelectSeq([j \in 1..Len(log) |-> j], LAMBDA j : log[j].branch = "newSection")

\* The rows of log after row from and before row to at which a row was
\* appended, in order.
AppendingRows(from, to) ==
  SelectSeq([j \in 1..Len(log) |-> j],
            LAMBDA j : /\ from < j /\ j < to
                       /\ log[j].branch \in {"dataRow", "label"})

\* The text starts with the text front.
StartsWith(value, front) ==
  Len(front) <= Len(value) /\ SubSeq(value, 1, Len(front)) = front

\* C26: every section opened by a header that is no repeat is in the
\* result of buildSections exactly once, in the order of opening, with
\* exactly the rows appended while it was the current one, in their
\* order; the section open at the end of the input is the last of them.
C26_EverySectionFinalized ==
  pc = "structured" =>
    /\ Len(structured) = Len(OpeningRows)
    /\ \A k \in 1..Len(OpeningRows) :
         LET header == log[OpeningRows[k]]
             next == IF k < Len(OpeningRows) THEN OpeningRows[k + 1]
                     ELSE Len(log) + 1
             appended == AppendingRows(OpeningRows[k], next)
         IN  /\ structured[k].pruefidentifikator
                  = NonEmpty(<<header.parsed.statusCol1,
                               header.parsed.statusCol2>>)
             /\ structured[k].pageStart = header.pageNum
             /\ Len(structured[k].rows) = Len(appended)
             /\ \A i \in 1..Len(appended) :
                  LET row == structured[k].rows[i]
                      parsed == log[appended[i]].parsed
                  IN  /\ row.segmentGroup = parsed.segmentGroup
                      /\ row.segmentCode = parsed.segmentCode
                      /\ row.dataElement = parsed.dataElement
                      /\ StartsWith(row.beschreibung, parsed.beschreibung)

\* C26 witness: a header, a data row, a second header and a row after it
\* and nothing else: two sections are returned, the second with its row.
C26_Witness ==
  /\ pc = "structured"
  /\ Len(log) = 4
  /\ log[4].parsed.segmentGroup = LF
  /\ Len(structured) = 2
  /\ structured[1].pruefidentifikator = <<Code21000>>
  /\ Len(structured[1].rows) = 1
  /\ structured[1].rows[1].segmentGroup = SG2
  /\ structured[2].pruefidentifikator = <<Code21025, Code21027>>
  /\ Len(structured[2].rows) = 1
  /\ structured[2].rows[1].segmentGroup = LF

\* C28: once a section is closed by the opening of the next, no row met
\* later changes a field of one of its rows or adds a row to it: it holds
\* the rows it had when it was closed; the continuation target is reset
\* when a section opens, and a continuation-shaped row met right after the
\* header is not merged into a row of the section before.
C28_ClosedSectionsImmutable ==
  /\ (pc = "building" /\ log # <<>>) =>
       LET n == Len(log)
       IN  /\ Len(build.sections) >= Len(before.sections)
           /\ \A k \in 1..Len(before.sections) :
                build.sections[k] = before.sections[k]
           /\ SectionOpened =>
                /\ build.lastRow = 0
                /\ before.current # <<>> =>
                     build.sections[Len(build.sections)].rows = before.rows
           /\ ( /\ n >= 2
                /\ log[n - 1].branch = "newSection"
                /\ ContinuationShaped(log[n].parsed)
                /\ ~HeaderOrMetadata(before, log[n].parsed) )
              => /\ build.sections = before.sections
                 /\ \A i \in 1..Len(build.rows) : build.rows[i].isLabel
  /\ (pc = "structured" /\ log # <<>>) =>
       /\ Len(structured) >= Len(before.sections)
       /\ \A k \in 1..Len(before.sections) : structured[k] = before.sections[k]

\* C28 witness: a header, a data row, a second header and the second line
\* of a cell: the first section holds the data row as it was met, the
\* second section has no row.
C28_Witness ==
  /\ pc = "building"
  /\ Len(log) = 4
  /\ log[3].branch = "newSection"
  /\ log[4].parsed.beschreibung = ICInfo
  /\ log[4].parsed.statusCol1 = Muss
  /\ Len(build.sections) = 1
  /\ build.sections[1].rows
       = <<DataRow(SG2, CTA, DE3139, Name, Muss, X, Cond1)>>
  /\ build.rows = <<>>
  /\ build.lastRow = 0

\* A label row is the first row of the list and the only label in it.
LabelFirstOnly(list) == \A i \in 1..Len(list) : list[i].isLabel => i = 1

\* C29: a label row is appended only to a section without rows: in the
\* open section, in every finalized section and in every section returned
\* a row with isLabel = true is the first row, so a section holds at most
\* one; a description-only row met while the section has a row (and that
\* is no header and no metadata row) is merged into the row before it as
\* a continuation and leaves the pending title as it is.
C29_LabelOnlyFirst ==
  /\ pc = "building" =>
       /\ LabelFirstOnly(build.rows)
       /\ \A k \in 1..Len(build.sections) :
            LabelFirstOnly(build.sections[k].rows)
  /\ pc = "structured" =>
       \A k \in 1..Len(structured) : LabelFirstOnly(structured[k].rows)
  /\ (pc = "building" /\ log # <<>>) =>
       LET parsed == log[Len(log)].parsed
           last == Len(before.rows)
       IN  ( /\ DescriptionOnly(parsed)
             /\ ~HeaderOrMetadata(before, parsed)
             /\ last >= 1 )
           => /\ Len(build.rows) = last
              /\ build.rows[last].beschreibung
                   = before.rows[last].beschreibung \o <<" ">>
                       \o parsed.beschreibung
              /\ build.rows[last].isLabel = before.rows[last].isLabel
              /\ build.pendingTitle = before.pendingTitle

\* C29 witness: a header, a data row and a description-only row: the
\* section has one row, the data row with the description at the end of
\* its beschreibung, no label, and the pending title is empty.
C29_Witness ==
  /\ pc = "building"
  /\ Len(log) = 3
  /\ log[3].parsed.beschreibung = Sendungsdaten
  /\ Len(build.rows) = 1
  /\ ~build.rows[1].isLabel
  /\ build.rows[1].beschreibung = Name \o <<" ">> \o Sendungsdaten
  /\ build.pendingTitle = Empty

-----------------------------------------------------------------------------
(* Normalization of strings long enough to hold two hyphens between three  *)
(* words, over the characters the spacing steps tell apart.                *)

MaxSpacedLen == 6

\* A word character, space, tab (a \s character that is no plain space),
\* hyphen and slash.
SpacingAlphabet == {"a", " ", "U+0009", "-", "/"}

SpacedTexts == UNION {[1..n -> SpacingAlphabet] : n \in 0..MaxSpacedLen}

ChooseSpacedText ==
  /\ pc = "start"
  /\ \E t \in SpacedTexts : text' = t
  /\ pc' = "text"
  /\ UNCHANGED <<webVars, once, twice, rowVars, docVars, parserVars>>

NextSpacing == ChooseSpacedText \/ Normalize \/ NormalizeAgain

SpecSpacing == InitNorm /\ [][NextSpacing]_vars

\* The hyphen at index i of s stands between two word characters, \s
\* characters between it and them aside.
BetweenWords(s, i) ==
  LET l == BackSpace(s, i - 1)
      r == SkipSpace(s, i + 1)
  IN  /\ s[i] = "-"
      /\ l >= 1 /\ s[l] \in WordChars
      /\ r <= Len(s) /\ s[r] \in WordChars

\* The \s character at index j of s belongs to a run of \s characters that
\* touches a slash or a hyphen between two word characters.
IsSpacing(s, j) ==
  LET l == BackSpace(s, j)
      r == SkipSpace(s, j)
  IN  /\ s[j] \in RegexSpaceChars
      /\ \/ l >= 1 /\ (s[l] = "/" \/ BetweenWords(s, l))
         \/ r <= Len(s) /\ (s[r] = "/" \/ BetweenWords(s, r))

\* s without the characters that are spacing.
RECURSIVE TightFrom(_, _)
TightFrom(s, j) ==
  IF j > Len(s) THEN <<>>
  ELSE (IF IsSpacing(s, j) THEN <<>> ELSE <<s[j]>>) \o TightFrom(s, j + 1)

Tight(s) == TightFrom(s, 1)

\* C27: the result of normalizeForComparison holds no \s character next
\* to a slash and none in the spacing of a hyphen between two word
\* characters, and a string normalizes to the same value as the string
\* without that spacing ("a - a - a" as "a-a-a").
C27_NoSpacingAtHyphenOrSlash ==
  pc = "once" =>
    /\ \A j \in 1..Len(once) : ~IsSpacing(once, j)
    /\ once = normalizeForComparison(Tight(text))

-----------------------------------------------------------------------------
(* server.mjs: one POST /api/compare, from multer storing the uploads to   *)
(* the end of the handler.  The handler is asynchronous: an action is what *)
(* it does between two awaits, and the database engine may finish its      *)
(* initialization between any two of them.                                 *)

\* file.path of an upload, named by multer, by form field.
UploadPath == [file1 |-> "upload_1", file2 |-> "upload_2"]

\* tmpFile of downloadPDF, by body field.
TmpFile == [url1 |-> "dl_1.pdf", url2 |-> "dl_2.pdf"]

\* The requests: each form field holds a file or not, each body field a
\* URL or not.
Requests ==
  [files : [file1 : BOOLEAN, file2 : BOOLEAN],
   body : [url1 : BOOLEAN, url2 : BOOLEAN]]

\* downloadPDF: a fetch that fails or answers with a status that is not ok
\* throws before a file is written; otherwise the file is written and
\* pushed to tempFiles.
downloadPDF(urlField, temps, dir, fetched) ==
  IF ~fetched
    THEN [threw |-> TRUE, path |-> None, tempFiles |-> temps, tmpDir |-> dir]
    ELSE [threw |-> FALSE, path |-> TmpFile[urlField],
          tempFiles |-> Append(temps, TmpFile[urlField]),
          tmpDir |-> dir \cup {TmpFile[urlField]}]

\* resolvePDF: the uploaded file, else the download, else null.
resolvePDF(request, fileField, urlField, temps, dir, fetched) ==
  IF request.files[fileField]
    THEN [threw |-> FALSE, path |-> UploadPath[fileField],
          tempFiles |-> temps, tmpDir |-> dir]
  ELSE IF request.body[urlField]
    THEN downloadPDF(urlField, temps, dir, fetched)
  ELSE [threw |-> FALSE, path |-> None, tempFiles |-> temps, tmpDir |-> dir]

\* The upload paths of a request.
UploadsOf(request) ==
  {UploadPath[key] : key \in {k \in {"file1", "file2"} : request.files[k]}}

\* A finally block that unlinks the downloads only.
UnlinkTempFilesOnly(dir, temps, request) ==
  dir \ {temps[i] : i \in 1..Len(temps)}

\* The finally block: unlinkSync of every entry of tempFiles and of the
\* path of every uploaded file; unlinking a file that is not there throws
\* and is ignored.
UnlinkAfter(dir, temps, request) ==
  (dir \ {temps[i] : i \in 1..Len(temps)}) \ UploadsOf(request)

InitWeb ==
  /\ pc = "start" /\ NormIdle /\ RowIdle /\ DocIdle /\ ParserIdle
  /\ WebIdle

\* initDatabase().then(() => { dbReady = true; })
InitDatabaseDone ==
  /\ ~dbReady
  /\ dbReady' = TRUE
  /\ UNCHANGED <<pc, req, tempFiles, pdf1Path, pdf2Path, res, tmpDir,
                 normVars, rowVars, docVars, parserVars>>

\* multer stores the uploaded files and calls the handler.
Post ==
  /\ pc = "start"
  /\ \E request \in Requests :
       /\ req' = request
       /\ tmpDir' = tmpDir \cup UploadsOf(request)
  /\ pc' = "handler"
  /\ UNCHANGED <<dbReady, tempFiles, pdf1Path, pdf2Path, res,
                 normVars, rowVars, docVars, parserVars>>

\* const tempFiles = []; 503 while the engine is not ready; else the first
\* resolvePDF is called.
Enter ==
  /\ pc = "handler"
  /\ tempFiles' = <<>>
  /\ IF ~dbReady
       THEN res' = Append(res, 503) /\ pc' = "finally"
       ELSE res' = res /\ pc' = "resolve1"
  /\ UNCHANGED <<dbReady, req, pdf1Path, pdf2Path, tmpDir,
                 normVars, rowVars, docVars, parserVars>>

\* const pdf1Path = await resolvePDF(req, 'file1', 'url1', tempFiles)
Resolve1 ==
  /\ pc = "resolve1"
  /\ \E fetched \in BOOLEAN :
       LET r == resolvePDF(req, "file1", "url1", tempFiles, tmpDir, fetched)
       IN  /\ tempFiles' = r.tempFiles
           /\ tmpDir' = r.tmpDir
           /\ pdf1Path' = r.path
           /\ pc' = IF r.threw THEN "catch" ELSE "resolve2"
  /\ UNCHANGED <<dbReady, req, pdf2Path, res,
                 normVars, rowVars, docVars, parserVars>>

\* const pdf2Path = await resolvePDF(req, 'file2', 'url2', tempFiles), and
\* 400 when one of the two paths is null.
Resolve2 ==
  /\ pc = "resolve2"
  /\ \E fetched \in BOOLEAN :
       LET r == resolvePDF(req, "file2", "url2", tempFiles, tmpDir, fetched)
       IN  /\ tempFiles' = r.tempFiles
           /\ tmpDir' = r.tmpDir
           /\ pdf2Path' = r.path
           /\ IF r.threw
                THEN res' = res /\ pc' = "catch"
              ELSE IF pdf1Path = None \/ r.path = None
                THEN res' = Append(res, 400) /\ pc' = "finally"
              ELSE res' = res /\ pc' = "parse1"
  /\ UNCHANGED <<dbReady, req, pdf1Path,
                 normVars, rowVars, docVars, parserVars>>

\* createDatabase(); const parsed1 = await parsePDF(pdf1Path)
Parse1 ==
  /\ pc = "parse1"
  /\ \E threw \in BOOLEAN : pc' = IF threw THEN "catch" ELSE "parse2"
  /\ UNCHANGED <<webVars, normVars, rowVars, docVars, parserVars>>

\* const parsed2 = await parsePDF(pdf2Path)
Parse2 ==
  /\ pc = "parse2"
  /\ \E threw \in BOOLEAN : pc' = IF threw THEN "catch" ELSE "compare"
  /\ UNCHANGED <<webVars, normVars, rowVars, docVars, parserVars>>

\* insertDocument, compareDocuments, buildHTML and res.send(html)
RunPipeline ==
  /\ pc = "compare"
  /\ \E threw \in BOOLEAN :
       IF threw
         THEN res' = res /\ pc' = "catch"
         ELSE res' = Append(res, 200) /\ pc' = "finally"
  /\ UNCHANGED <<dbReady, req, tempFiles, pdf1Path, pdf2Path, tmpDir,
                 normVars, rowVars, docVars, parserVars>>

\* catch (err): res.status(500).json(...)
Catch ==
  /\ pc = "catch"
  /\ res' = Append(res, 500)
  /\ pc' = "finally"
  /\ UNCHANGED <<dbReady, req, tempFiles, pdf1Path, pdf2Path, tmpDir,
                 normVars, rowVars, docVars, parserVars>>

\* finally: the downloads and the uploads are unlinked.
Finally ==
  /\ pc = "finally"
  /\ tmpDir' = UnlinkAfter(tmpDir, tempFiles, req)
  /\ pc' = "ended"
  /\ UNCHANGED <<dbReady, req, tempFiles, pdf1Path, pdf2Path, res,
                 normVars, rowVars, docVars, parserVars>>

NextWeb ==
  \/ InitDatabaseDone \/ Post \/ Enter \/ Resolve1 \/ Resolve2
  \/ Parse1 \/ Parse2 \/ RunPipeline \/ Catch \/ Finally

SpecWeb == InitWeb /\ [][NextWeb]_vars

\* The files multer and downloadPDF wrote for the request.
FilesOf(request) ==
  UploadsOf(request) \cup {TmpFile["url1"], TmpFile["url2"]}

=============================================================================
